---- MODULE Spec2Model ----
(***************************************************************************)
(* Pipeline orchestrator: feature store, scheduler (getNextAction),        *)
(* autoplay controller (runOrchestratorMode), VCS bridge (createPR,        *)
(* mergePR) and the OpenSpec importer (importChange).                      *)
(*                                                                         *)
(* A feature id "FEAT-NNN" is modelled by the natural number NNN; the      *)
(* string form is rebuilt by IdStr where the code orders or formats ids.   *)
(***************************************************************************)
EXTENDS Integers, Sequences, FiniteSets, TLC

VARIABLES
  features,    \* the features table: id -> row (status, passes, depends_on, openspec key)
  config,      \* loadConfig(): maxRetries, autoMerge, safeMode
  retries,     \* runOrchestratorMode: var retries = {}
  escalated,   \* runOrchestratorMode: var escalated = new Set()
  pc,          \* position of the running command
  cur,         \* the (action, feature, statusBefore) of the agent session in progress
  op,          \* the last operation performed and its outcome
  ret,         \* the value returned by the last call of a pure function
  imported,    \* change -> the most task groups any importChange of it has upserted so far
  patches,     \* number of manual depends_on edits made so far
  archived,    \* change -> number of times the archive command was run for it
  clients,     \* server.js: const clients = [], the SSE responses in push order
  lastState,   \* server.js: let lastState = '', the ticker's remembered snapshot
  broken,      \* clients whose socket has failed and whose 'close' event is still queued
  broadcasts,  \* every event handed to broadcast() so far, in call order
  received,    \* client -> the events written to its socket, in arrival order
  missed       \* whether a tick was skipped on a read failure since the last tick that read the store

\* the state of the read-model server (dashboard/server.js)
dashboard == <<clients, lastState, broken, broadcasts, received, missed>>

vars == <<features, config, retries, escalated, pc, cur, op, ret, imported, patches,
          archived, dashboard>>

----------------------------------------------------------------------------
(* Bounds of the model *)

\* features in a scheduler / resolveOrder input
MaxFeatures == 2
\* length of a depends_on array drawn as input
MaxDeps == 2
\* largest max_retries value drawn for a run
MaxRetriesBound == 1
\* largest number of task groups a tasks document parses to
MaxGroups == 2
\* manual depends_on edits interleaved with imports
MaxPatches == 1

----------------------------------------------------------------------------
(* The features table: schema.sql *)

Statuses == {"pending", "in-dev", "ready-for-review", "approved",
             "needs-revision", "qa-testing", "pr-open", "complete"}

Changes == {"X", "Y"}

\* serialize(): the row features.create inserts, absent fields defaulted
serialize(f) ==
  [description |-> IF "description" \in DOMAIN f THEN f.description ELSE "",
   status |-> IF "status" \in DOMAIN f THEN f.status ELSE "pending",
   passes |-> IF "passes" \in DOMAIN f THEN f.passes ELSE FALSE,
   depends_on |-> IF "depends_on" \in DOMAIN f THEN f.depends_on ELSE <<>>,
   openspec_change_id |->
     IF "openspec_change_id" \in DOMAIN f THEN f.openspec_change_id ELSE "",
   openspec_task_group |->
     IF "openspec_task_group" \in DOMAIN f THEN f.openspec_task_group ELSE 0]

\* features.create: INSERT INTO features
create(F, id, f) == [i \in DOMAIN F \cup {id} |-> IF i = id THEN serialize(f) ELSE F[i]]

\* an allow-list that names the key and the creation time as well
allowedAndKeys == {"category", "description", "status", "depends_on", "assigned_to", "passes",
                   "openspec_change_id", "openspec_task_group", "id", "created_at"}

\* features.update: the allow-list of mutable columns
allowed == {"category", "description", "status", "depends_on", "assigned_to", "passes",
            "openspec_change_id", "openspec_task_group"}

\* features.remove: DELETE FROM features WHERE id = ?; exported by the library
\* and called by no command, route or controller step
remove(F, id) == [i \in DOMAIN F \ {id} |-> F[i]]

\* an update that deletes the row it was to write
updateAsRemove(F, id, fields) == remove(F, id)

\* features.update: UPDATE features SET <allow-listed keys of fields> WHERE id = @id
update(F, id, fields) ==
  IF id \notin DOMAIN F \/ DOMAIN fields \cap allowed = {} THEN F
  ELSE [F EXCEPT ![id] =
          [k \in DOMAIN F[id] |->
             IF k \in DOMAIN fields \cap allowed THEN fields[k] ELSE F[id][k]]]

----------------------------------------------------------------------------
(* Id strings: 'FEAT-' + String(n).padStart(3, '0'), ordered as text *)

RECURSIVE Digits(_)
Digits(n) == IF n < 10 THEN <<n>> ELSE Append(Digits(n \div 10), n % 10)

RECURSIVE PadStart(_, _)
PadStart(s, w) == IF Len(s) >= w THEN s ELSE PadStart(<<0>> \o s, w)

PadWidth == 3

IdStr(n) == PadStart(Digits(n), PadWidth)

\* text comparison of two digit strings, as SQLite's ORDER BY id compares them
RECURSIVE StrLess(_, _)
StrLess(a, b) ==
  IF a = <<>> THEN b # <<>>
  ELSE IF b = <<>> THEN FALSE
  ELSE IF Head(a) # Head(b) THEN Head(a) < Head(b)
  ELSE StrLess(Tail(a), Tail(b))

IdLess(i, j) == StrLess(IdStr(i), IdStr(j))

\* SELECT ... ORDER BY id: the ids of a set as a sequence in text order
\* (text holds each id's string, formatted once)
RECURSIVE OrderByText(_, _)
OrderByText(S, text) ==
  IF S = {} THEN <<>>
  ELSE LET m == CHOOSE x \in S : \A y \in S \ {x} : StrLess(text[x], text[y])
       IN <<m>> \o OrderByText(S \ {m}, text)

OrderById(S) == OrderByText(S, [i \in S |-> IdStr(i)])

list(F) == OrderById(DOMAIN F)

\* SELECT id FROM features ORDER BY id DESC LIMIT 1, then parseInt + 1
nextId(F) ==
  IF DOMAIN F = {} THEN 1
  ELSE LET top == CHOOSE x \in DOMAIN F : \A y \in DOMAIN F \ {x} : IdLess(y, x)
       IN top + 1

----------------------------------------------------------------------------
(* Dependency resolution: features.resolveOrder and features.depsAreMet *)

\* the DFS state of resolveOrder: sorted, visited, visiting, and the id the
\* 'Circular dependency' error names once it is thrown
DfsStart == [sorted |-> <<>>, visited |-> {}, visiting |-> {}, thrown |-> {}]

RECURSIVE visit(_, _, _)
RECURSIVE visitEach(_, _, _, _)

\* a visit that pushes the feature before its dependencies are visited
visitPreorder(F, id, st) ==
  IF st.thrown # {} \/ id \in st.visited THEN st
  ELSE IF id \in st.visiting THEN [st EXCEPT !.thrown = {id}]
  ELSE LET s1 == [st EXCEPT !.visiting = @ \cup {id},
                            !.sorted = IF id \in DOMAIN F THEN Append(@, id) ELSE @]
           s2 == IF id \in DOMAIN F THEN visitEach(F, F[id].depends_on, 1, s1) ELSE s1
       IN IF s2.thrown # {} THEN s2
          ELSE [s2 EXCEPT !.visiting = @ \ {id}, !.visited = @ \cup {id}]

\* function visit(id) of resolveOrder
visit(F, id, st) ==
  IF st.thrown # {} \/ id \in st.visited THEN st
  ELSE IF id \in st.visiting THEN [st EXCEPT !.thrown = {id}]
  ELSE LET s1 == [st EXCEPT !.visiting = @ \cup {id}]
           s2 == IF id \in DOMAIN F THEN visitEach(F, F[id].depends_on, 1, s1) ELSE s1
       IN IF s2.thrown # {} THEN s2
          ELSE [s2 EXCEPT !.visiting = @ \ {id},
                          !.visited = @ \cup {id},
                          !.sorted = IF id \in DOMAIN F THEN Append(@, id) ELSE @]

\* for (const dep of f.depends_on) visit(dep); also all.forEach(f => visit(f.id))
visitEach(F, ids, i, st) ==
  IF i > Len(ids) THEN st ELSE visitEach(F, ids, i + 1, visit(F, ids[i], st))

\* resolveOrder: [thrown = {}, sorted = the order] or [thrown = {id}]
resolveOrder(F) == visitEach(F, list(F), 1, DfsStart)

\* depsAreMet as the specification words it: every dependency exists and is complete
depsAreMetByStatus(F, id) ==
  IF id \notin DOMAIN F \/ F[id].depends_on = <<>> THEN TRUE
  ELSE \A k \in 1..Len(F[id].depends_on) :
         LET dep == F[id].depends_on[k]
         IN dep \in DOMAIN F /\ F[dep].status = "complete"

\* depsAreMet with a dependency that names no feature counted as met
depsAreMetIgnoringUnknown(F, id) ==
  IF id \notin DOMAIN F \/ F[id].depends_on = <<>> THEN TRUE
  ELSE \A k \in 1..Len(F[id].depends_on) :
         LET dep == F[id].depends_on[k]
         IN dep \in DOMAIN F => F[dep].passes = TRUE

\* features.depsAreMet: every dependency exists and has passes === true
depsAreMet(F, id) ==
  IF id \notin DOMAIN F \/ F[id].depends_on = <<>> THEN TRUE
  ELSE \A k \in 1..Len(F[id].depends_on) :
         LET dep == F[id].depends_on[k]
         IN dep \in DOMAIN F /\ F[dep].passes = TRUE

----------------------------------------------------------------------------
(* Scheduler: getNextAction *)

Null == [kind |-> "null"]
Raise(id) == [kind |-> "raise", id |-> id]
Act(a, id) == [kind |-> "action", action |-> a, id |-> id]

\* the status-to-action mapping tried before the passes short-circuit
actionForStatusFirst(f) ==
  IF f.status \in {"pending", "needs-revision"} THEN "dev"
  ELSE IF f.status = "ready-for-review" THEN "review"
  ELSE IF f.status \in {"approved", "qa-testing"} THEN "qa"
  ELSE IF f.status = "pr-open" THEN "merge"
  ELSE IF f.passes THEN "pr"
  ELSE "dev"

\* getNextAction, the body of the loop after the three skips
actionFor(f) ==
  IF f.passes THEN "pr"
  ELSE IF f.status \in {"pending", "needs-revision"} THEN "dev"
  ELSE IF f.status = "ready-for-review" THEN "review"
  ELSE IF f.status \in {"approved", "qa-testing"} THEN "qa"
  ELSE IF f.status = "pr-open" THEN "merge"
  ELSE "dev"

\* the skips without the status === 'complete' test
skippedNoCompleteTest(F, esc, id) ==
  \/ id \in esc
  \/ ~depsAreMet(F, id)

\* the skips without the escalated.has(f.id) test
skippedNoEscalationTest(F, esc, id) ==
  \/ F[id].status = "complete"
  \/ ~depsAreMet(F, id)

\* getNextAction: the three 'continue' tests
skipped(F, esc, id) ==
  \/ F[id].status = "complete"
  \/ id \in esc
  \/ ~depsAreMet(F, id)

RECURSIVE firstActionable(_, _, _, _)
firstActionable(F, esc, order, i) ==
  IF i > Len(order) THEN Null
  ELSE IF skipped(F, esc, order[i]) THEN firstActionable(F, esc, order, i + 1)
  ELSE Act(actionFor(F[order[i]]), order[i])

getNextAction(F, esc) ==
  LET r == resolveOrder(F)
  IN IF r.thrown # {} THEN Raise(CHOOSE id \in r.thrown : TRUE)
     ELSE firstActionable(F, esc, r.sorted, 1)

----------------------------------------------------------------------------
(* Inputs of the scheduler: every store of up to MaxFeatures features in any
   status, with any passes value, each depending on nothing, on the feature
   before it or on an id that names no feature; any escalation set *)

NoRun == [maxRetries |-> 0, autoMerge |-> FALSE, safeMode |-> TRUE,
          openspecAutoArchive |-> FALSE]
NoSession == [action |-> "none"]
NoOp == [name |-> "none"]
NoRet == [fn |-> "none"]
NoImports == [c \in Changes |-> 0]
\* no read-model server is running: nothing connected, nothing remembered
ServerDown ==
  /\ clients = <<>>
  /\ lastState = <<>>
  /\ broken = {}
  /\ broadcasts = <<>>
  /\ received = <<>>
  /\ missed = FALSE

NoArchives == [c \in Changes |-> 0]

\* the dependency arrays of feature i of n: the features before it and the id
\* n + 1, which names no feature, in id order, at most MaxDeps of them
SchedDeps(i, n) ==
  { OrderById(S) : S \in { T \in SUBSET ((1..(i - 1)) \cup {n + 1}) : Cardinality(T) <= MaxDeps } }

SchedStores(max) ==
  UNION { { F \in [1..n -> [status : Statuses, passes : BOOLEAN,
                            depends_on : UNION {SchedDeps(i, n) : i \in 1..n},
                            openspec_change_id : {""}, openspec_task_group : {0}]] :
              \A i \in 1..n : F[i].depends_on \in SchedDeps(i, n) } :
          n \in 1..max }

SchedInit ==
  /\ features \in SchedStores(MaxFeatures)
  /\ escalated \in SUBSET (DOMAIN features)
  /\ config = NoRun
  /\ retries = <<>>
  /\ pc = "sched"
  /\ cur = NoSession
  /\ op = NoOp
  /\ ret = NoRet
  /\ imported = NoImports
  /\ patches = 0
  /\ archived = NoArchives
  /\ ServerDown

\* a call of getNextAction(projectRoot, escalated), as runGuidedMode and the loop make it
CallGetNextAction ==
  /\ pc = "sched"
  /\ ret' = [fn |-> "getNextAction", val |-> getNextAction(features, escalated)]
  /\ pc' = "returned"
  /\ UNCHANGED <<features, config, retries, escalated, cur, op, imported, patches, archived, dashboard>>

SchedNext == CallGetNextAction

SpecSched == SchedInit /\ [][SchedNext]_vars

Returned == ret.fn = "getNextAction" /\ ret.val.kind = "action"

\* C2: getNextAction never returns a feature whose status is complete, whatever
\* its passes value and whatever the escalation set
C2_CompleteNeverReturned ==
  Returned => features[ret.val.id].status # "complete"

\* a feature was returned although a complete feature with passes = true, not
\* escalated and without dependencies, comes before it in the order
C2_Witness ==
  /\ Returned
  /\ ret.val.id = 2
  /\ features[1].status = "complete" /\ features[1].passes
  /\ features[1].depends_on = <<>> /\ 1 \notin escalated

\* C3: getNextAction never returns a feature one of whose dependencies is not
\* complete or names no feature
C3_UnmetDepsNeverReturned ==
  Returned => depsAreMetByStatus(features, ret.val.id)

----------------------------------------------------------------------------
(* Inputs of depsAreMet: the scheduler's stores; a call per feature id *)

DepsInit ==
  /\ features \in SchedStores(MaxFeatures)
  /\ escalated = {}
  /\ config = NoRun
  /\ retries = <<>>
  /\ pc = "deps"
  /\ cur = NoSession
  /\ op = NoOp
  /\ ret = NoRet
  /\ imported = NoImports
  /\ patches = 0
  /\ archived = NoArchives
  /\ ServerDown

CallDepsAreMet(id) ==
  /\ pc = "deps"
  /\ ret' = [fn |-> "depsAreMet", id |-> id, val |-> depsAreMet(features, id)]
  /\ pc' = "returned"
  /\ UNCHANGED <<features, config, retries, escalated, cur, op, imported, patches, archived, dashboard>>

\* the scheduler's answer on the same store, with an empty escalation set
CallScheduler ==
  /\ pc = "deps"
  /\ ret' = [fn |-> "getNextAction", val |-> getNextAction(features, escalated)]
  /\ pc' = "returned"
  /\ UNCHANGED <<features, config, retries, escalated, cur, op, imported, patches, archived, dashboard>>

DepsNext == (\E id \in DOMAIN features : CallDepsAreMet(id)) \/ CallScheduler

SpecDeps == DepsInit /\ [][DepsNext]_vars

----------------------------------------------------------------------------
(* Inputs of resolveOrder: every store of up to MaxFeatures features whose
   depends_on arrays are any arrays of up to MaxDeps ids, the ids of the
   store and one id that names no feature; cycles and self-loops included *)

RECURSIVE SeqsUpTo(_, _)
SeqsUpTo(S, n) ==
  IF n = 0 THEN {<<>>}
  ELSE SeqsUpTo(S, n - 1) \cup { Append(q, x) : q \in SeqsUpTo(S, n - 1), x \in S }

OrderStores(max) ==
  UNION { [1..n -> [status : {"pending"}, passes : {FALSE},
                    depends_on : SeqsUpTo(1..(n + 1), MaxDeps),
                    openspec_change_id : {""}, openspec_task_group : {0}]] :
          n \in 1..max }

OrderInit ==
  /\ features \in OrderStores(MaxFeatures)
  /\ escalated = {}
  /\ config = NoRun
  /\ retries = <<>>
  /\ pc = "order"
  /\ cur = NoSession
  /\ op = NoOp
  /\ ret = NoRet
  /\ imported = NoImports
  /\ patches = 0
  /\ archived = NoArchives
  /\ ServerDown

CallResolveOrder ==
  /\ pc = "order"
  /\ ret' = [fn |-> "resolveOrder", val |-> resolveOrder(features)]
  /\ pc' = "returned"
  /\ UNCHANGED <<features, config, retries, escalated, cur, op, imported, patches, archived, dashboard>>

OrderNext == CallResolveOrder

SpecOrder == OrderInit /\ [][OrderNext]_vars

\* the depends_on edges between ids; an id that names no feature has none
DepEdges(F) ==
  UNION { { <<a, F[a].depends_on[k]>> : k \in 1..Len(F[a].depends_on) } : a \in DOMAIN F }

RECURSIVE Closure(_)
Closure(R) ==
  LET R2 == R \cup { <<x[1][1], x[2][2]>> : x \in { y \in R \X R : y[1][2] = y[2][1] } }
  IN IF R2 = R THEN R ELSE Closure(R2)

HasCycle(F) == \E a \in DOMAIN F : <<a, a>> \in Closure(DepEdges(F))

\* C10: resolveOrder either returns every feature exactly once, each after all
\* the existing features it depends on, or raises 'Circular dependency: <id>';
\* it raises exactly when the depends_on graph has a cycle (a self-loop
\* included), and the id it names lies on a cycle
C10_TopologicalOrRaises ==
  ret.fn = "resolveOrder" =>
    LET r == ret.val
        closure == Closure(DepEdges(features))
    IN /\ (r.thrown # {}) <=> HasCycle(features)
       /\ \A id \in r.thrown : <<id, id>> \in closure
       /\ r.thrown = {} =>
            /\ Len(r.sorted) = Cardinality(DOMAIN features)
            /\ { r.sorted[i] : i \in 1..Len(r.sorted) } = DOMAIN features
            /\ \A i, j \in 1..Len(r.sorted) :
                 <<r.sorted[i], r.sorted[j]>> \in DepEdges(features) => j < i

\* resolveOrder returned an order that differs from the id order: FEAT-001
\* depends on FEAT-002 and on an id that names no feature
C10_Witness ==
  /\ ret.fn = "resolveOrder"
  /\ ret.val.thrown = {}
  /\ DOMAIN features = {1, 2}
  /\ features[1].depends_on = <<2, 3>>
  /\ ret.val.sorted = <<2, 1>>

----------------------------------------------------------------------------
(* VCS bridge: createPR and mergePR *)

\* what createPR finds around it: whether 'git remote get-url origin' succeeds,
\* and whether gh is absent, present with 'gh pr create' failing, or present
\* with 'gh pr create' succeeding
PREnvs == [origin : BOOLEAN, gh : {"absent", "fails", "ok"}]

\* createPR with the status written as complete
createPRComplete(F, id, env) == update(F, id, [status |-> "complete"])

\* createPR with the status written only when 'gh pr create' succeeded
createPROnSuccessOnly(F, id, env) ==
  IF env.gh = "ok" THEN update(F, id, [status |-> "pr-open"])
  ELSE F

\* createPR, the store it leaves: both the gh branch and the fallback set
\* status pr-open; the origin remote decides the push only, which writes
\* nothing to the store
createPR(F, id, env) ==
  IF env.gh = "ok" THEN update(F, id, [status |-> "pr-open"])
  ELSE update(F, id, [status |-> "pr-open"])

\* createPR, the value it returns: true after the gh branch, true after the
\* fallback
createPRValue(env) == IF env.gh = "ok" THEN TRUE ELSE TRUE

\* mergePR: [merged, F, result]; gh merge first, local git merge as fallback
mergePR(F, id, cfg, ghOk, gitOk) ==
  IF ~cfg.autoMerge THEN [merged |-> FALSE, F |-> F, result |-> "skipped"]
  ELSE IF ghOk THEN
    [merged |-> TRUE, F |-> update(F, id, [status |-> "complete"]), result |-> "merged"]
  ELSE IF gitOk THEN
    [merged |-> TRUE, F |-> update(F, id, [status |-> "complete"]), result |-> "merged"]
  ELSE [merged |-> FALSE, F |-> F, result |-> "failed"]

\* a maybeArchive that does not look at the siblings' statuses
maybeArchiveUnchecked(F, completedFeatureId) ==
  IF completedFeatureId \notin DOMAIN F THEN {}
  ELSE IF F[completedFeatureId].openspec_change_id = "" THEN {}
  ELSE {F[completedFeatureId].openspec_change_id}

\* openspec.maybeArchive: the change archiveChange is called for, if any
maybeArchive(F, completedFeatureId) ==
  IF completedFeatureId \notin DOMAIN F THEN {}
  ELSE IF F[completedFeatureId].openspec_change_id = "" THEN {}
  ELSE LET changeId == F[completedFeatureId].openspec_change_id
           siblings == { i \in DOMAIN F : F[i].openspec_change_id = changeId }
       IN IF \A i \in siblings : F[i].status = "complete" THEN {changeId} ELSE {}

\* maybeAutoArchive(feature, config), called by mergePR after it set complete;
\* feature is the object getNextAction returned, F the store after the update
maybeAutoArchive(F, id, cfg) ==
  IF ~cfg.openspecAutoArchive THEN {}
  ELSE IF F[id].openspec_change_id = "" THEN {}
  ELSE maybeArchive(F, id)

\* the archive counters after the archive command was run for the changes in cs
archiveRuns(a, cs) == [c \in DOMAIN a |-> IF c \in cs THEN a[c] + 1 ELSE a[c]]

----------------------------------------------------------------------------
(* Autoplay controller: runOrchestratorMode *)

\* retries[feature.id] || 0
retryOf(r, id) == IF id \in DOMAIN r THEN r[id] ELSE 0

\* retries[feature.id] = (retries[feature.id] || 0) + 1
bump(r, id) == [i \in DOMAIN r \cup {id} |-> IF i = id THEN retryOf(r, id) + 1 ELSE r[i]]

\* the stall check without the escalation of an exhausted feature
afterSessionNoEscalation(F, r, esc, id, statusBefore, max) ==
  IF id \in DOMAIN F /\ F[id].status = statusBefore
  THEN [retries |-> bump(r, id), escalated |-> esc, stalled |-> TRUE]
  ELSE [retries |-> r, escalated |-> esc, stalled |-> FALSE]

\* runOrchestratorMode, 'Reload and check': a session that left the status
\* unchanged counts as a stall and escalates the feature once over the limit
afterSession(F, r, esc, id, statusBefore, max) ==
  IF id \in DOMAIN F /\ F[id].status = statusBefore
  THEN [retries |-> bump(r, id),
        escalated |-> IF retryOf(r, id) + 1 > max THEN esc \cup {id} ELSE esc,
        stalled |-> TRUE]
  ELSE [retries |-> r, escalated |-> esc, stalled |-> FALSE]

\* what an agent session may write with 'feature update <id> --status S --passes B':
\* nothing, or any status with any passes value (a write of one field alone is
\* the write of both with the other field's current value)
AgentWrites == {<<>>} \cup [status : Statuses, passes : BOOLEAN]

\* var next = getNextAction(projectRoot, escalated), at the head of the loop
nextAction == getNextAction(features, escalated)

\* getNextAction throws 'Circular dependency': the run ends with the exception
IterRaise ==
  /\ pc = "loop"
  /\ LET next == nextAction
     IN /\ next.kind = "raise"
        /\ op' = [name |-> "raise", id |-> next.id]
  /\ pc' = "crashed"
  /\ UNCHANGED <<features, config, retries, escalated, cur, ret, imported, patches, archived, dashboard>>

\* the autoplay command after runOrchestratorMode returns: db.close() and the
\* end of the action, with no process.exit and no process.exitCode
exitCode(esc) == 0

\* if (!next) { ... break; }, then the command ends
IterExit ==
  /\ pc = "loop"
  /\ nextAction.kind = "null"
  /\ pc' = "done"
  /\ op' = [name |-> "exit", code |-> exitCode(escalated)]
  /\ UNCHANGED <<features, config, retries, escalated, cur, ret, imported, patches, archived, dashboard>>

\* calls of one VCS function made in a row for one feature, modulo 2: every
\* call runs the git and gh commands again, whatever the store already says
callsInARow(o, name, id) ==
  IF o.name = name /\ o.id = id THEN (o.calls + 1) % 2 ELSE 1

\* if (action === 'pr') { createPR(feature, config); continue; }
IterPR ==
  /\ pc = "loop"
  /\ LET next == nextAction
     IN /\ next.kind = "action" /\ next.action = "pr"
        /\ \E env \in PREnvs : features' = createPR(features, next.id, env)
        /\ op' = [name |-> "createPR", id |-> next.id, calls |-> callsInARow(op, "createPR", next.id)]
  /\ UNCHANGED <<config, retries, escalated, pc, cur, ret, imported, patches, archived, dashboard>>

\* if (action === 'merge') { if (!mergePR(...)) { if (config.safeMode) escalated.add } continue; }
IterMerge ==
  /\ pc = "loop"
  /\ LET next == nextAction
     IN /\ next.kind = "action" /\ next.action = "merge"
        /\ \E ghOk \in BOOLEAN, gitOk \in BOOLEAN, archiveOk \in BOOLEAN :
             LET m == mergePR(features, next.id, config, ghOk, gitOk)
                 cs == IF m.merged THEN maybeAutoArchive(m.F, next.id, config) ELSE {}
             IN /\ features' = m.F
                /\ archived' = archiveRuns(archived, cs)
                /\ escalated' = IF ~m.merged /\ config.safeMode
                                 THEN escalated \cup {next.id} ELSE escalated
                /\ op' = [name |-> "mergePR", id |-> next.id, result |-> m.result,
                           calls |-> callsInARow(op, "mergePR", next.id),
                           archive |-> cs, archiveOk |-> cs # {} /\ archiveOk]
  /\ UNCHANGED <<config, retries, pc, cur, ret, imported, patches, dashboard>>

\* the exhausted pick-up counted and not escalated
IterEscalateCountsOnly ==
  /\ pc = "loop"
  /\ LET next == nextAction
     IN /\ next.kind = "action" /\ next.action = "dev"
        /\ features[next.id].status = "needs-revision"
        /\ retryOf(retries, next.id) + 1 > config.maxRetries
        /\ retries' = bump(retries, next.id)
        /\ escalated' = escalated
        /\ op' = [name |-> "escalate", id |-> next.id]
  /\ UNCHANGED <<features, config, pc, cur, ret, imported, patches, archived, dashboard>>

\* dev on needs-revision with the retry budget exhausted: escalate and continue
IterEscalate ==
  /\ pc = "loop"
  /\ LET next == nextAction
     IN /\ next.kind = "action" /\ next.action = "dev"
        /\ features[next.id].status = "needs-revision"
        /\ retryOf(retries, next.id) + 1 > config.maxRetries
        /\ retries' = bump(retries, next.id)
        /\ escalated' = escalated \cup {next.id}
        /\ op' = [name |-> "escalate", id |-> next.id]
  /\ UNCHANGED <<features, config, pc, cur, ret, imported, patches, archived, dashboard>>

\* the spawn with the budget test one too late (>= in place of >)
IterSpawnOverBudget ==
  /\ pc = "loop"
  /\ LET next == nextAction
         rejected == next.action = "dev" /\ features[next.id].status = "needs-revision"
     IN /\ next.kind = "action" /\ next.action \in {"dev", "review", "qa"}
        /\ rejected => retryOf(retries, next.id) <= config.maxRetries
        /\ retries' = IF rejected THEN bump(retries, next.id) ELSE retries
        /\ cur' = [action |-> next.action, id |-> next.id,
                    statusBefore |-> features[next.id].status]
        /\ op' = [name |-> "spawn", id |-> next.id]
  /\ pc' = "session"
  /\ UNCHANGED <<features, config, escalated, ret, imported, patches, archived, dashboard>>

\* dev, review or qa: count the rejection pick-up, record statusBefore and
\* spawn the agent session
IterSpawn ==
  /\ pc = "loop"
  /\ LET next == nextAction
         rejected == next.action = "dev" /\ features[next.id].status = "needs-revision"
     IN /\ next.kind = "action" /\ next.action \in {"dev", "review", "qa"}
        /\ rejected => retryOf(retries, next.id) + 1 <= config.maxRetries
        /\ retries' = IF rejected THEN bump(retries, next.id) ELSE retries
        /\ cur' = [action |-> next.action, id |-> next.id,
                    statusBefore |-> features[next.id].status]
        /\ op' = [name |-> "spawn", id |-> next.id]
  /\ pc' = "session"
  /\ UNCHANGED <<features, config, escalated, ret, imported, patches, archived, dashboard>>

\* the agent subprocess runs, writes what it writes and exits; the controller
\* reloads the feature and does the stall accounting
SessionEnd ==
  /\ pc = "session"
  /\ \E w \in AgentWrites :
       LET F2 == update(features, cur.id, w)
           a == afterSession(F2, retries, escalated, cur.id, cur.statusBefore,
                             config.maxRetries)
       IN /\ features' = F2
          /\ retries' = a.retries
          /\ escalated' = a.escalated
          /\ op' = [name |-> "session", id |-> cur.id]
  /\ pc' = "loop"
  /\ cur' = NoSession
  /\ UNCHANGED <<config, ret, imported, patches, archived, dashboard>>

AutoNext ==
  \/ IterRaise
  \/ IterExit
  \/ IterPR
  \/ IterMerge
  \/ IterEscalate
  \/ IterSpawn
  \/ SessionEnd

\* the stores a run starts on: a backlog of pending features; the first depends
\* on nothing, on an id that names no feature, or on itself; each later one
\* depends on nothing or on the feature before it
AutoDeps(i, n) == IF i = 1 THEN {<<>>, <<n + 1>>, <<1>>} ELSE {<<>>, <<i - 1>>}

AutoStores(max) ==
  UNION { { F \in [1..n -> [status : {"pending"}, passes : {FALSE},
                            depends_on : UNION {AutoDeps(i, n) : i \in 1..n},
                            openspec_change_id : {""}, openspec_task_group : {0}]] :
              \A i \in 1..n : F[i].depends_on \in AutoDeps(i, n) } :
          n \in 1..max }

AutoInit ==
  /\ features \in AutoStores(MaxFeatures)
  /\ config \in [maxRetries : 0..MaxRetriesBound, autoMerge : BOOLEAN, safeMode : BOOLEAN,
                   openspecAutoArchive : {FALSE}]
  /\ retries = <<>>
  /\ escalated = {}
  /\ pc = "loop"
  /\ cur = NoSession
  /\ op = NoOp
  /\ ret = NoRet
  /\ imported = NoImports
  /\ patches = 0
  /\ archived = NoArchives
  /\ ServerDown

\* the run has neither left the loop nor crashed
Running == pc \in {"loop", "session"}

\* every agent subprocess the controller waits for exits (spawnSync returns),
\* and the loop keeps iterating while the run lasts: weak fairness of AutoNext,
\* with ENABLED <<AutoNext>>_vars written out as Running (every branch of the
\* loop body is a step, and every step changes pc, retries or op)
AutoFair ==
  /\ WF_vars(SessionEnd)
  /\ ([]<>(~Running) \/ []<><<AutoNext>>_vars)

SpecAutoplay == AutoInit /\ [][AutoNext]_vars /\ AutoFair

\* C1: on an acyclic backlog the run reaches its 'no actionable features' exit,
\* whatever the agents, the merge and PR tools and the configuration do
C1_AutoplayTerminates ==
  ~HasCycle(features) => <>(pc = "done")

\* C6: a feature's retry counter never exceeds max_retries + 1, and no agent
\* session runs for a feature whose counter has exceeded max_retries
C6_RetriesBounded ==
  /\ \A id \in DOMAIN retries : retries[id] <= config.maxRetries + 1
  /\ pc = "session" => retryOf(retries, cur.id) <= config.maxRetries

\* a feature that used its whole budget (max_retries >= 1) was picked up in
\* needs-revision once more and escalated with the counter at max_retries + 1
C6_Witness ==
  /\ config.maxRetries >= 1
  /\ op.name = "escalate"
  /\ retries[op.id] = config.maxRetries + 1
  /\ op.id \in escalated

BecomesComplete(id) ==
  /\ id \in DOMAIN features
  /\ features[id].status # "complete"
  /\ features'[id].status = "complete"

\* C7 as claimed: a status becomes complete only by mergePR after a successful
\* merge command, and a QA session leaves the status as it was
C7_CompleteOnlyByMerge ==
  [][ /\ \A id \in DOMAIN features :
           BecomesComplete(id) =>
             op'.name = "mergePR" /\ op'.result = "merged" /\ op'.id = id
      /\ (pc = "session" /\ cur.action = "qa") =>
           features'[cur.id].status = features[cur.id].status ]_vars

\* C7 as amended: among the controller's own steps only mergePR after a
\* successful merge command sets complete; the one other way a status becomes
\* complete is the write of the agent session itself (features.update takes
\* any status), on the session's own feature
C7_CompleteByMergeOrAgentWrite ==
  [][ \A id \in DOMAIN features :
        BecomesComplete(id) =>
          \/ op'.name = "mergePR" /\ op'.result = "merged" /\ op'.id = id
          \/ op'.name = "session" /\ op'.id = id ]_vars

\* mergePR merged a pr-open feature and left it complete
C7_Witness ==
  /\ op.name = "mergePR"
  /\ op.result = "merged"
  /\ features[op.id].status = "complete"

----------------------------------------------------------------------------
(* Spec importer: importChange, on a store that a dashboard user edits *)

\* a lookup that finds no row
findByOpenspecKeyNever(F, changeId, taskGroup) == {}

\* a lookup that finds the row of the first task group only
findByOpenspecKeyFirstGroup(F, changeId, taskGroup) ==
  LET rows == { i \in DOMAIN F : /\ F[i].openspec_change_id = changeId
                                 /\ F[i].openspec_task_group = taskGroup
                                 /\ taskGroup = 1 }
  IN IF rows = {} THEN {} ELSE {CHOOSE i \in rows : TRUE}

\* findByOpenspecKey: the row with this (change, task group) key, if any
findByOpenspecKey(F, changeId, taskGroup) ==
  LET rows == { i \in DOMAIN F : /\ F[i].openspec_change_id = changeId
                                 /\ F[i].openspec_task_group = taskGroup }
  IN IF rows = {} THEN {} ELSE {CHOOSE i \in rows : TRUE}

\* a group count without the fallback for a document that has no task group
groupCountAsParsed(parsed) == parsed

\* importChange, 'if (taskGroups.length === 0) taskGroups = [{ title: changeName }]'
groupCount(parsed) == IF parsed = 0 THEN 1 ELSE parsed

\* importChange: the titles of taskGroups; a parsed group is titled by the
\* text of its top-level task, the fallback group by the change name
taskGroupsOf(changeName, parsed) ==
  [g \in 1..groupCount(parsed) |-> IF parsed = 0 THEN changeName ELSE "a task group"]

\* a featureData that carries the values of a new feature as well
featureDataAsNew(changeName, taskGroups, g) ==
  [category |-> changeName, description |-> taskGroups[g],
   openspec_change_id |-> changeName, openspec_task_group |-> g,
   status |-> "pending", passes |-> FALSE, assigned_to |-> "dev-agent"]

\* importChange: featureData, what the artifacts say of task group g
featureData(changeName, taskGroups, g) ==
  [category |-> changeName, description |-> taskGroups[g],
   openspec_change_id |-> changeName, openspec_task_group |-> g]

\* importChange, the upsert loop: st = [F, created, updated]
RECURSIVE upsert(_, _, _, _)
upsert(st, changeName, g, taskGroups) ==
  IF g > Len(taskGroups) THEN st
  ELSE LET existing == findByOpenspecKey(st.F, changeName, g)
       IN IF existing # {}
          THEN LET id == CHOOSE i \in existing : TRUE
               IN upsert([st EXCEPT !.F = update(@, id,
                                             featureData(changeName, taskGroups, g)),
                                    !.updated = Append(@, id)],
                         changeName, g + 1, taskGroups)
          ELSE LET id == nextId(st.F)
               IN upsert([st EXCEPT !.F = create(@, id,
                                             [description |-> taskGroups[g],
                                              status |-> "pending", depends_on |-> <<>>,
                                              passes |-> FALSE,
                                              openspec_change_id |-> changeName,
                                              openspec_task_group |-> g]),
                                    !.created = Append(@, id)],
                         changeName, g + 1, taskGroups)

\* importChange: allIds, the ids found for groups 1..n in group order
RECURSIVE allIdsOf(_, _, _, _)
allIdsOf(F, changeName, g, n) ==
  IF g > n THEN <<>>
  ELSE LET feat == findByOpenspecKey(F, changeName, g)
       IN (IF feat # {} THEN <<CHOOSE i \in feat : TRUE>> ELSE <<>>)
            \o allIdsOf(F, changeName, g + 1, n)

includes(deps, id) == \E k \in 1..Len(deps) : deps[k] = id

RECURSIVE wireNoIncludesTest(_, _, _)
RECURSIVE wire(_, _, _)

\* the wiring loop without the includes test
wireNoIncludesTest(F, allIds, i) ==
  IF i > Len(allIds) THEN F
  ELSE wireNoIncludesTest(
         update(F, allIds[i], [depends_on |-> Append(F[allIds[i]].depends_on, allIds[i - 1])]),
         allIds, i + 1)

\* importChange, 'Set up sequential dependencies within the same change'
wire(F, allIds, i) ==
  IF i > Len(allIds) THEN F
  ELSE IF allIds[i] \in DOMAIN F /\ ~includes(F[allIds[i]].depends_on, allIds[i - 1])
       THEN wire(update(F, allIds[i],
                        [depends_on |-> Append(F[allIds[i]].depends_on, allIds[i - 1])]),
                 allIds, i + 1)
       ELSE wire(F, allIds, i + 1)

\* importChange on a change that was found and whose tasks parsed to 'parsed' groups
importChange(F, changeName, parsed) ==
  LET n == groupCount(parsed)
      up == upsert([F |-> F, created |-> <<>>, updated |-> <<>>], changeName, 1,
                   taskGroupsOf(changeName, parsed))
      allIds == allIdsOf(up.F, changeName, 1, n)
  IN [F |-> wire(up.F, allIds, 2),
      result |-> [ok |-> TRUE, created |-> up.created, updated |-> up.updated, total |-> n]]

\* the stores an import starts on: empty, or one feature added by hand
ImportStores == {<<>>, create(<<>>, 1, [status |-> "pending"])}

ImportInit ==
  /\ features \in ImportStores
  /\ escalated = {}
  /\ config = NoRun
  /\ retries = <<>>
  /\ pc = "import"
  /\ cur = NoSession
  /\ op = NoOp
  /\ ret = NoRet
  /\ imported = NoImports
  /\ patches = 0
  /\ archived = NoArchives
  /\ ServerDown

Max(a, b) == IF a > b THEN a ELSE b

\* the command before this one was a successful import of the same change
\* with the same artifacts
sameAsLast(changeName, parsed) ==
  /\ op.name = "importChange"
  /\ ret.fn = "importChange" /\ ret.val.ok
  /\ op.change = changeName
  /\ op.parsed = parsed

\* 'openspec import <change>': the change is found and its tasks parse to
\* 0..MaxGroups top-level items
ImportChange ==
  /\ pc = "import"
  /\ \E changeName \in Changes, parsed \in 0..MaxGroups :
       LET r == importChange(features, changeName, parsed)
       IN /\ features' = r.F
          /\ ret' = [fn |-> "importChange", val |-> r.result]
          /\ op' = [name |-> "importChange", change |-> changeName, parsed |-> parsed,
                     repeat |-> sameAsLast(changeName, parsed)]
          /\ imported' = [imported EXCEPT ![changeName] = Max(@, r.result.total)]
  /\ UNCHANGED <<config, retries, escalated, pc, cur, patches, archived, dashboard>>

\* importChange: neither the CLI nor the disk has the change; nothing is written
ImportNotFound ==
  /\ pc = "import"
  /\ \E changeName \in Changes :
       /\ ret' = [fn |-> "importChange", val |-> [ok |-> FALSE]]
       /\ op' = [name |-> "importChange", change |-> changeName, parsed |-> 0,
                  repeat |-> FALSE]
  /\ UNCHANGED <<features, config, retries, escalated, pc, cur, imported, patches, archived, dashboard>>

RemoveAt(q, k) == SubSeq(q, 1, k - 1) \o SubSeq(q, k + 1, Len(q))

\* the arrays one edit of a depends_on array leads to: one entry removed
editsOf(deps) == { RemoveAt(deps, k) : k \in 1..Len(deps) }

\* PATCH /api/features/:id with { depends_on: [...] }: a dashboard user removes
\* a dependency of an imported feature
PatchDependsOn ==
  /\ pc = "import"
  /\ patches < MaxPatches
  /\ \E id \in DOMAIN features :
       /\ features[id].openspec_change_id # ""
       /\ \E deps \in editsOf(features[id].depends_on) :
            features' = update(features, id, [depends_on |-> deps])
       /\ op' = [name |-> "patch", id |-> id]
  /\ ret' = NoRet
  /\ patches' = patches + 1
  /\ UNCHANGED <<config, retries, escalated, pc, cur, imported, archived, dashboard>>

ImportNext ==
  \/ ImportChange
  \/ ImportNotFound
  \/ PatchDependsOn

SpecImport == ImportInit /\ [][ImportNext]_vars

\* the features of a change, and the feature of a change with a given task group
ofChange(F, c) == { i \in DOMAIN F : F[i].openspec_change_id = c }
ofGroup(F, c, g) == { i \in ofChange(F, c) : F[i].openspec_task_group = g }
groupsOf(F, c) == { F[i].openspec_task_group : i \in ofChange(F, c) }

ImportedOk == ret.fn = "importChange" /\ ret.val.ok

\* C8 as claimed: after an import of a change that used k task groups, the
\* store holds exactly k features of the change, with task groups 1..k
C8_ExactlyLatestGroups ==
  ImportedOk =>
    /\ Cardinality(ofChange(features, op.change)) = ret.val.total
    /\ groupsOf(features, op.change) = 1..ret.val.total

\* C8 as amended: the store holds, for every change, exactly m features, where
\* m is the largest number of task groups any import of the change has used so
\* far (none before the first import); their task groups are exactly 1..m, so
\* no two features share a (change, task group) key
C8_ExactlyMostGroups ==
  \A c \in Changes :
    /\ Cardinality(ofChange(features, c)) = imported[c]
    /\ groupsOf(features, c) = 1..imported[c]

\* a change imported with two groups was imported again with one: one feature
\* updated, none created, and the feature of group 2 is still in the store
C8_Witness ==
  /\ ImportedOk
  /\ ret.val.total = 1
  /\ ret.val.created = <<>>
  /\ Len(ret.val.updated) = 1
  /\ groupsOf(features, op.change) = {1, 2}

NoDuplicates(deps) == \A j, k \in 1..Len(deps) : deps[j] = deps[k] => j = k

\* the feature of group g of change c depends on the feature of group g - 1
Wired(F, c, g) ==
  \E f \in ofGroup(F, c, g), p \in ofGroup(F, c, g - 1) : includes(F[f].depends_on, p)

\* C9 as claimed: after an import of a change, every feature of the change with
\* task group g >= 2 depends on the feature of group g - 1, and no depends_on
\* array holds an id twice
C9_EveryGroupWired ==
  /\ \A id \in DOMAIN features : NoDuplicates(features[id].depends_on)
  /\ ImportedOk =>
       \A g \in groupsOf(features, op.change) : g >= 2 => Wired(features, op.change, g)

\* C9 as amended: after an import of a change that used n task groups, the
\* feature of every group g in 2..n depends on the feature of group g - 1
\* (a feature of a group beyond n, left by an earlier import, is not rewired),
\* and no depends_on array holds an id twice
C9_LatestGroupsWired ==
  /\ \A id \in DOMAIN features : NoDuplicates(features[id].depends_on)
  /\ ImportedOk => \A g \in 2..ret.val.total : Wired(features, op.change, g)

\* a dependency was removed by hand and the change imported again with two
\* groups, both already in the store: group 2 depends on group 1, once
C9_Witness ==
  /\ ImportedOk
  /\ patches >= 1
  /\ ret.val.total = 2
  /\ Len(ret.val.updated) = 2
  /\ Wired(features, op.change, 2)
  /\ \A id \in ofGroup(features, op.change, 2) : Len(features[id].depends_on) = 1

----------------------------------------------------------------------------
(* Id allocation: nextId followed by create, as 'feature create' and
   importChange do; the stores hold low ids and ids around the first
   four-digit one *)

\* the first id whose number has more digits than padStart pads to
Rollover == 10 ^ PadWidth

SeedIds(max) == (1..max) \cup ((Rollover - max)..(Rollover + max))

IdStores(max) ==
  { [i \in S |-> serialize([status |-> "pending"])] :
      S \in { T \in SUBSET SeedIds(max) : Cardinality(T) <= max + 1 } }

IdsInit ==
  /\ features \in IdStores(MaxFeatures)
  /\ escalated = {}
  /\ config = NoRun
  /\ retries = <<>>
  /\ pc = "ids"
  /\ cur = NoSession
  /\ op = NoOp
  /\ ret = NoRet
  /\ imported = NoImports
  /\ patches = 0
  /\ archived = NoArchives
  /\ ServerDown

\* var id = features.nextId(root); features.create(root, { id: id, ... }):
\* the row is inserted
CreateNext ==
  /\ pc = "ids"
  /\ Cardinality(DOMAIN features) < 2 * MaxFeatures
  /\ LET id == nextId(features)
     IN /\ id \notin DOMAIN features
        /\ features' = create(features, id, [status |-> "pending"])
        /\ ret' = [fn |-> "nextId", val |-> id]
        /\ op' = [name |-> "create", id |-> id, ok |-> TRUE]
  /\ UNCHANGED <<config, retries, escalated, pc, cur, imported, patches, archived, dashboard>>

\* the same, on an id the table already holds: INSERT violates the primary
\* key, the statement throws and the store is left as it was
CreateNextRejected ==
  /\ pc = "ids"
  /\ LET id == nextId(features)
     IN /\ id \in DOMAIN features
        /\ ret' = [fn |-> "nextId", val |-> id]
        /\ op' = [name |-> "create", id |-> id, ok |-> FALSE]
  /\ UNCHANGED <<features, config, retries, escalated, pc, cur, imported, patches, archived, dashboard>>

IdsNext ==
  \/ CreateNext
  \/ CreateNextRejected

SpecIds == IdsInit /\ [][IdsNext]_vars

\* C11: nextId never returns the id of an existing feature, returns FEAT-001
\* on an empty store, and after nextId returned FEAT-N and that feature was
\* created the next call returns FEAT-(N+1), four-digit ids included
C11_NextIdMonotonic ==
  /\ nextId(features) \notin DOMAIN features
  /\ DOMAIN features = {} => nextId(features) = 1
  /\ (op.name = "create" /\ op.ok) => nextId(features) = op.id + 1

\* C12: an import of a change run right after a successful import of the same
\* change with the same artifacts leaves every feature as it was and creates none
C12_ImportIdempotent ==
  [][ (op'.name = "importChange" /\ op'.repeat /\ ret'.val.ok) =>
        /\ features' = features
        /\ ret'.val.created = <<>> ]_vars

\* a change of two task groups was imported twice in a row: the second run
\* updated both features and created none
C12_Witness ==
  /\ op.name = "importChange"
  /\ op.repeat
  /\ ImportedOk
  /\ ret.val.created = <<>>
  /\ Len(ret.val.updated) = 2

----------------------------------------------------------------------------
(* Portability: exportFeatures and importFeatures. The rows of these stores
   carry the assigned_to column as well, one of the three columns the import
   defaults with '||' *)

\* a || d on a string: the empty string is falsy
orString(a, d) == IF a = "" THEN d ELSE a

\* a || 0 on a number
orZero(a) == IF a = 0 THEN 0 ELSE a

\* importFeatures: the parameters of upsert.run for one item of the file
importedRow(f) ==
  [status |-> orString(f.status, "pending"),
   passes |-> IF f.passes THEN TRUE ELSE FALSE,
   depends_on |-> f.depends_on,
   assigned_to |-> orString(f.assigned_to, "dev-agent"),
   openspec_change_id |-> orString(f.openspec_change_id, ""),
   openspec_task_group |-> orZero(f.openspec_task_group)]

\* exportFeatures: rows.map(r => ({ id: r.id, ... })), for one row
exportedItem(F, id) ==
  [id |-> id, status |-> F[id].status, passes |-> F[id].passes = TRUE,
   depends_on |-> F[id].depends_on, assigned_to |-> F[id].assigned_to,
   openspec_change_id |-> orString(F[id].openspec_change_id, ""),
   openspec_task_group |-> orZero(F[id].openspec_task_group)]

\* exportFeatures: SELECT * FROM features ORDER BY id, mapped to the file's items
exportFeatures(F) ==
  LET order == list(F) IN [k \in 1..Len(order) |-> exportedItem(F, order[k])]

\* importFeatures: INSERT ... ON CONFLICT(id) DO UPDATE, item by item
RECURSIVE importItems(_, _, _)
importItems(F, items, k) ==
  IF k > Len(items) THEN F
  ELSE importItems([i \in DOMAIN F \cup {items[k].id} |->
                      IF i = items[k].id THEN importedRow(items[k]) ELSE F[i]],
                   items, k + 1)

importFeatures(F, items) == [F |-> importItems(F, items, 1), count |-> Len(items)]

\* the stores exported: up to max features, pending or complete, assigned to
\* the default agent, to another one, or to none (PATCH { assigned_to: '' })
PortDeps(i, n) == IF i = 1 THEN {<<>>} ELSE {<<>>, <<i - 1>>}

PortStores(max) ==
  UNION { { F \in [1..n -> [status : {"pending", "complete"}, passes : BOOLEAN,
                            depends_on : UNION {PortDeps(i, n) : i \in 1..n},
                            assigned_to : {"dev-agent", "ux-agent", ""},
                            openspec_change_id : {""}, openspec_task_group : {0}]] :
              \A i \in 1..n : F[i].depends_on \in PortDeps(i, n) } :
          n \in 1..max }

PortInit ==
  /\ features \in PortStores(MaxFeatures)
  /\ escalated = {}
  /\ config = NoRun
  /\ retries = <<>>
  /\ pc = "port"
  /\ cur = NoSession
  /\ op = NoOp
  /\ ret = NoRet
  /\ imported = NoImports
  /\ patches = 0
  /\ archived = NoArchives
  /\ ServerDown

\* 'feature export': the file is written
ExportFeatures ==
  /\ pc = "port"
  /\ LET items == exportFeatures(features)
     IN /\ op' = [name |-> "export", file |-> items]
        /\ ret' = [fn |-> "exportFeatures", val |-> Len(items)]
  /\ pc' = "exported"
  /\ UNCHANGED <<features, config, retries, escalated, cur, imported, patches, archived, dashboard>>

\* 'feature import' of the file, into the store it was exported from
ImportIntoSame ==
  /\ pc = "exported"
  /\ LET r == importFeatures(features, op.file)
     IN /\ features' = r.F
        /\ ret' = [fn |-> "importFeatures", val |-> r.count]
  /\ op' = [name |-> "import", file |-> op.file, into |-> "same"]
  /\ pc' = "imported"
  /\ UNCHANGED <<config, retries, escalated, cur, imported, patches, archived, dashboard>>

\* 'feature import' of the file, into a store with no feature
ImportIntoEmpty ==
  /\ pc = "exported"
  /\ LET r == importFeatures(<<>>, op.file)
     IN /\ features' = r.F
        /\ ret' = [fn |-> "importFeatures", val |-> r.count]
  /\ op' = [name |-> "import", file |-> op.file, into |-> "empty"]
  /\ pc' = "imported"
  /\ UNCHANGED <<config, retries, escalated, cur, imported, patches, archived, dashboard>>

PortNext ==
  \/ ExportFeatures
  \/ ImportIntoSame
  \/ ImportIntoEmpty

SpecPort == PortInit /\ [][PortNext]_vars

\* C13: after the import of an exported file the store holds the exported
\* features: the same ids with the same value of every exported field
C13_ExportImportRoundTrip ==
  op.name = "import" => exportFeatures(features) = op.file

----------------------------------------------------------------------------
(* Autoplay: merging, escalation after a merge that did not happen, exit code *)

\* C14: while safe_mode is true or auto_merge is false, a call of mergePR does
\* not merge and leaves the feature at pr-open
C14_NoMergeInSafeMode ==
  [][ (op'.name = "mergePR" /\ (config.safeMode \/ ~config.autoMerge)) =>
        /\ op'.result # "merged"
        /\ features'[op'.id].status = "pr-open" ]_vars

\* C15: a merge action that does not end with status complete puts the feature
\* in the escalation set in the same iteration, whatever safe_mode and
\* auto_merge are
C15_UnmergedIsEscalated ==
  [][ (op'.name = "mergePR" /\ features'[op'.id].status # "complete") =>
        op'.id \in escalated' ]_vars

\* C16: the command ends with a non-zero exit code exactly when the
\* escalation set is not empty
C16_ExitCodeTellsEscalations ==
  pc = "done" => (op.code # 0 <=> escalated # {})

\* C17: a QA session that sets passes = true does not escalate its feature,
\* and what the scheduler then has for that feature is the 'pr' action
C17_QaPassLeadsToPr ==
  [][ (pc = "session" /\ cur.action = "qa" /\ ~features[cur.id].passes
         /\ features'[cur.id].passes) =>
        /\ cur.id \notin escalated'
        /\ ~skipped(features', escalated', cur.id)
        /\ actionFor(features'[cur.id]) = "pr" ]_vars

----------------------------------------------------------------------------
(* Autoplay with cooperative agents: dev hands over for review, review
   approves, QA passes; auto_merge = true, safe_mode = false, and every merge
   command succeeds *)

\* what the cooperative agent of an action writes on its feature
coopWrite(action, f) ==
  IF action = "dev" THEN [status |-> "ready-for-review", passes |-> f.passes]
  ELSE IF action = "review" THEN [status |-> "approved", passes |-> f.passes]
  ELSE [status |-> f.status, passes |-> TRUE]

\* runAgentSession returns after the cooperative agent's write; reload and
\* stall check
CoopSessionEnd ==
  /\ pc = "session"
  /\ LET F2 == update(features, cur.id, coopWrite(cur.action, features[cur.id]))
         a == afterSession(F2, retries, escalated, cur.id, cur.statusBefore,
                           config.maxRetries)
     IN /\ features' = F2
        /\ retries' = a.retries
        /\ escalated' = a.escalated
        /\ op' = [name |-> "session", id |-> cur.id]
  /\ pc' = "loop"
  /\ cur' = NoSession
  /\ UNCHANGED <<config, ret, imported, patches, archived, dashboard>>

\* the merge step with a gh merge that succeeds
CoopMerge ==
  /\ pc = "loop"
  /\ LET next == nextAction
     IN /\ next.kind = "action" /\ next.action = "merge"
        /\ LET m == mergePR(features, next.id, config, TRUE, TRUE)
               cs == IF m.merged THEN maybeAutoArchive(m.F, next.id, config) ELSE {}
           IN /\ features' = m.F
              /\ archived' = archiveRuns(archived, cs)
              /\ escalated' = IF ~m.merged /\ config.safeMode
                               THEN escalated \cup {next.id} ELSE escalated
              /\ op' = [name |-> "mergePR", id |-> next.id, result |-> m.result,
                         calls |-> callsInARow(op, "mergePR", next.id),
                         archive |-> cs, archiveOk |-> cs # {}]
  /\ UNCHANGED <<config, retries, pc, cur, ret, imported, patches, dashboard>>

CoopNext ==
  \/ IterRaise
  \/ IterExit
  \/ IterPR
  \/ CoopMerge
  \/ IterEscalate
  \/ IterSpawn
  \/ CoopSessionEnd

\* the backlogs a cooperative run starts on: features at any status short of
\* complete, not yet passed; the first depends on nothing or on itself, each
\* later one on nothing or on the feature before it
CoopDeps(i, n) == IF i = 1 THEN {<<>>, <<1>>} ELSE {<<>>, <<i - 1>>}

CoopStores(max) ==
  UNION { { F \in [1..n -> [status : Statuses \ {"complete"}, passes : {FALSE},
                            depends_on : UNION {CoopDeps(i, n) : i \in 1..n},
                            openspec_change_id : {""}, openspec_task_group : {0}]] :
              \A i \in 1..n : F[i].depends_on \in CoopDeps(i, n) } :
          n \in 1..max }

CoopInit ==
  /\ features \in CoopStores(MaxFeatures)
  /\ config \in [maxRetries : 0..MaxRetriesBound, autoMerge : {TRUE}, safeMode : {FALSE},
                   openspecAutoArchive : {FALSE}]
  /\ retries = <<>>
  /\ escalated = {}
  /\ pc = "loop"
  /\ cur = NoSession
  /\ op = NoOp
  /\ ret = NoRet
  /\ imported = NoImports
  /\ patches = 0
  /\ archived = NoArchives
  /\ ServerDown

\* every agent subprocess exits and the loop keeps iterating while the run
\* lasts (weak fairness of CoopNext, with ENABLED written out as Running)
CoopFair ==
  /\ WF_vars(CoopSessionEnd)
  /\ ([]<>(~Running) \/ []<><<CoopNext>>_vars)

SpecCoop == CoopInit /\ [][CoopNext]_vars /\ CoopFair

AllComplete == \A id \in DOMAIN features : features[id].status = "complete"

\* C18: a cooperative run over an acyclic backlog eventually has every
\* feature complete and has exited (stated for max_retries >= 1, so that the
\* stall counted for a QA pass does not by itself escalate the feature)
C18_CooperativeRunCompletes ==
  (~HasCycle(features) /\ config.maxRetries >= 1) => <>(pc = "done" /\ AllComplete)

----------------------------------------------------------------------------
(* Dependencies on ids that name no feature *)

HasUnknownDep(F, id) ==
  \E k \in 1..Len(F[id].depends_on) : F[id].depends_on[k] \notin DOMAIN F

Dangling(F) == { id \in DOMAIN F : HasUnknownDep(F, id) }

\* C19: on a store without cycles getNextAction does not raise, never returns
\* a feature with a dependency that names no feature, and returns what it
\* returns when those features are skipped as escalated ones are
C19_UnknownDepBlocksOnly ==
  ret.fn = "getNextAction" =>
    /\ ret.val.kind # "raise"
    /\ Returned => ret.val.id \notin Dangling(features)
    /\ ret.val = getNextAction(features, escalated \cup Dangling(features))

\* FEAT-001, pending and not escalated, depends on an id that names no
\* feature, and the scheduler returned FEAT-002
C19_Witness ==
  /\ Returned
  /\ ret.val.id = 2
  /\ 1 \in Dangling(features)
  /\ 1 \notin escalated
  /\ features[1].status = "pending"

----------------------------------------------------------------------------
(* Autoplay over the features of an imported change: auto-archive *)

\* a backlog as a run starts on it, every feature being a task group of change X
ArchiveStores(max) ==
  { [i \in DOMAIN F |-> [F[i] EXCEPT !.openspec_change_id = "X",
                                    !.openspec_task_group = i]] : F \in AutoStores(max) }

ArchiveInit ==
  /\ features \in ArchiveStores(MaxFeatures)
  /\ config \in [maxRetries : {0}, autoMerge : {TRUE}, safeMode : BOOLEAN,
                 openspecAutoArchive : BOOLEAN]
  /\ retries = <<>>
  /\ escalated = {}
  /\ pc = "loop"
  /\ cur = NoSession
  /\ op = NoOp
  /\ ret = NoRet
  /\ imported = NoImports
  /\ patches = 0
  /\ archived = NoArchives
  /\ ServerDown

SpecArchive == ArchiveInit /\ [][AutoNext]_vars

ChangeComplete(F, c) ==
  /\ ofChange(F, c) # {}
  /\ \A i \in ofChange(F, c) : F[i].status = "complete"

\* the archive command is run for change c in this step
ArchiveRun(c) == archived'[c] = archived[c] + 1

\* the last feature of change c becomes complete in this step
LastBecomesComplete(c) == ~ChangeComplete(features, c) /\ ChangeComplete(features', c)

\* what holds of the archive command whatever completes a feature: it is run
\* only with openspec_auto_archive = true, only by a mergePR that merged, only
\* when every feature of the change is complete, at most once per change, and
\* whether it fails or not the loop goes on
ArchiveSafety ==
  \A c \in Changes :
    /\ ArchiveRun(c) =>
         /\ config.openspecAutoArchive
         /\ op'.name = "mergePR" /\ op'.result = "merged"
         /\ ChangeComplete(features', c)
         /\ archived[c] = 0
         /\ pc' = "loop"
    /\ ~ArchiveRun(c) => archived'[c] = archived[c]

----------------------------------------------------------------------------
(* The features table as SQLite keeps it: the created_at and updated_at
   columns, the CHECK on status, the partial unique index and the
   features_updated_at trigger *)

\* seconds of wall-clock time a run of the read-model server spans
MaxClock == 1

\* the row an INSERT stores at second now: created_at and updated_at default
\* to datetime('now')
insertedRow(f, now) ==
  serialize(f) @@ [created_at |-> now, updated_at |-> now]

\* deserialize(row): the record the library hands out, id included
deserialize(F, id) ==
  [k \in DOMAIN F[id] \cup {"id"} |-> IF k = "id" THEN id ELSE F[id][k]]

\* features.list without filters: SELECT * FROM features ORDER BY id
listAll(F) == [k \in 1..Len(list(F)) |-> deserialize(F, list(F)[k])]

\* features.get: the record of an id, or null
getFeature(F, id) == IF id \in DOMAIN F THEN deserialize(F, id) ELSE Null

\* CHECK(status IN (...)) fails for some row of the table
violatesCheck(F) == \E i \in DOMAIN F : F[i].status \notin Statuses

\* the index left out of the schema
violatesIndexNever(F) == FALSE

\* idx_openspec_upsert: two rows with the same (openspec_change_id,
\* openspec_task_group) and openspec_change_id != ''
violatesIndex(F) ==
  \E i, j \in DOMAIN F :
    /\ i # j
    /\ F[i].openspec_change_id # ""
    /\ F[i].openspec_change_id = F[j].openspec_change_id
    /\ F[i].openspec_task_group = F[j].openspec_task_group

\* a statement whose result breaks a constraint throws and is rolled back
constraintFails(F) == violatesCheck(F) \/ violatesIndex(F)

\* trigger features_updated_at: AFTER UPDATE ... SET updated_at = datetime('now')
features_updated_at(F, id, now) == [F EXCEPT ![id].updated_at = now]

\* features.update: sets and params, the allow-listed keys of fields
setsOf(fields) == [k \in DOMAIN fields \cap allowed |-> fields[k]]

\* UPDATE features SET <sets> WHERE id = @id: the one row is rewritten (under
\* a new key when id is among the sets), the trigger stamps the row that still
\* has the old id, and the statement throws with the table untouched when the
\* primary key or a constraint fails
sqlUpdate(F, id, sets, now) ==
  LET newId == IF "id" \in DOMAIN sets THEN sets.id ELSE id
      row == [k \in DOMAIN F[id] |-> IF k \in DOMAIN sets THEN sets[k] ELSE F[id][k]]
      G == [i \in (DOMAIN F \ {id}) \cup {newId} |-> IF i = newId THEN row ELSE F[i]]
  IN IF newId # id /\ newId \in DOMAIN F THEN [store |-> F, threw |-> TRUE]
     ELSE IF constraintFails(G) THEN [store |-> F, threw |-> TRUE]
     ELSE [store |-> IF id \in DOMAIN G THEN features_updated_at(G, id, now) ELSE G,
           threw |-> FALSE]

\* features.update against the database: no statement is run when no key of
\* fields is allow-listed; the value returned is getFeature(featureId)
updateRow(F, id, fields, now) ==
  IF id \notin DOMAIN F \/ DOMAIN setsOf(fields) = {}
  THEN [store |-> F, threw |-> FALSE, value |-> getFeature(F, id)]
  ELSE LET r == sqlUpdate(F, id, setsOf(fields), now)
       IN [store |-> r.store, threw |-> r.threw,
           value |-> IF r.threw THEN Null ELSE getFeature(r.store, id)]

\* features.create against the database: INSERT INTO features, which throws
\* with the table untouched when the primary key or a constraint fails
insertRow(F, id, f, now) ==
  LET G == [i \in DOMAIN F \cup {id} |-> IF i = id THEN insertedRow(f, now) ELSE F[i]]
  IN IF id \in DOMAIN F \/ constraintFails(G) THEN [store |-> F, threw |-> TRUE]
     ELSE [store |-> G, threw |-> FALSE]

\* the latest second stamped on any row
RECURSIVE latest(_, _)
latest(F, t) ==
  IF \E i \in DOMAIN F : F[i].updated_at > t THEN latest(F, t + 1) ELSE t

\* the seconds the clock may show at the next statement
Now(F) == latest(F, 0)..MaxClock

----------------------------------------------------------------------------
(* The read-model server: dashboard/server.js *)

\* features in the store the server is started on
MaxServed == 1
\* SSE connections that can be open at once
MaxClients == 2
\* events broadcast in one run of the server
MaxEvents == 2
Connections == 1..MaxClients

\* the responses held in the clients array
connected(cl) == {cl[k] : k \in DOMAIN cl}

\* JSON.stringify(all): the text of a snapshot; '' is the text of no snapshot
stringify(all) == <<all>>

\* 'event: ' + event + '\ndata: ' + JSON.stringify(data) + '\n\n'
message(event, data) == [event |-> event, data |-> stringify(data)]

\* a broadcast whose forEach stops at the first socket that has failed
forEachWriteUntilFailure(rcv, cl, dead, msg) ==
  [c \in DOMAIN rcv |->
     IF /\ c \in connected(cl) \ dead
        /\ \A k \in DOMAIN cl : cl[k] \in dead => \E j \in 1..(k - 1) : cl[j] = c
     THEN Append(rcv[c], msg) ELSE rcv[c]]

\* clients.forEach(c => c.write(msg)): the write reaches every client of the
\* array whose socket still works; on a failed socket it is lost
forEachWrite(rcv, cl, dead, msg) ==
  [c \in DOMAIN rcv |->
     IF c \in connected(cl) \ dead THEN Append(rcv[c], msg) ELSE rcv[c]]

\* broadcast(event, data)
broadcast(event, data) ==
  /\ broadcasts' = Append(broadcasts, message(event, data))
  /\ received' = forEachWrite(received, clients, broken, message(event, data))

\* app.get('/api/events'): clients.push(res)
Connect(c) ==
  /\ pc = "serving"
  /\ c \notin connected(clients)
  /\ clients' = Append(clients, c)
  /\ received' = [received EXCEPT ![c] = <<>>]
  /\ op' = [name |-> "connect", client |-> c]
  /\ UNCHANGED <<features, config, retries, escalated, pc, cur, ret, imported, patches,
                 archived, lastState, broken, broadcasts, missed>>

\* the peer goes away or stops accepting data: writes to the socket fail from
\* now on, and the request's 'close' event is queued
SocketFails(c) ==
  /\ pc = "serving"
  /\ c \in connected(clients) \ broken
  /\ broken' = broken \cup {c}
  /\ op' = [name |-> "socket-failed", client |-> c]
  /\ UNCHANGED <<features, config, retries, escalated, pc, cur, ret, imported, patches,
                 archived, clients, lastState, broadcasts, received, missed>>

\* req.on('close'): idx = clients.indexOf(res); if (idx !== -1) clients.splice(idx, 1)
OnClose(c) ==
  /\ pc = "serving"
  /\ c \in broken
  /\ clients' = SelectSeq(clients, LAMBDA x : x # c)
  /\ broken' = broken \ {c}
  /\ op' = [name |-> "close", client |-> c]
  /\ UNCHANGED <<features, config, retries, escalated, pc, cur, ret, imported, patches,
                 archived, lastState, broadcasts, received, missed>>

\* a skipped tick that nevertheless remembers the store as if it had sent it
TickSkippedRemembers ==
  /\ pc = "serving"
  /\ missed' = TRUE
  /\ lastState' = stringify(listAll(features))
  /\ op' = [name |-> "tick", read |-> FALSE]
  /\ UNCHANGED <<features, config, retries, escalated, pc, cur, ret, imported, patches,
                 archived, clients, broken, broadcasts, received>>

\* the setInterval callback whose features.list throws: the catch swallows it
TickSkipped ==
  /\ pc = "serving"
  /\ missed' = TRUE
  /\ op' = [name |-> "tick", read |-> FALSE]
  /\ UNCHANGED <<features, config, retries, escalated, pc, cur, ret, imported, patches,
                 archived, clients, lastState, broken, broadcasts, received>>

\* a ticker that broadcasts the list on every tick that reads it
TickAlways ==
  /\ pc = "serving"
  /\ Len(broadcasts) < MaxEvents
  /\ lastState' = stringify(listAll(features))
  /\ broadcast("features", listAll(features))
  /\ op' = [name |-> "tick", read |-> TRUE, sent |-> TRUE, afterMissed |-> missed]
  /\ missed' = FALSE
  /\ UNCHANGED <<features, config, retries, escalated, pc, cur, ret, imported, patches,
                 archived, clients, broken>>

\* the setInterval callback: all = features.list(); state = JSON.stringify(all);
\* if (state !== lastState) { lastState = state; broadcast('features', all) }
Tick ==
  /\ pc = "serving"
  /\ LET all == listAll(features)
         state == stringify(all)
     IN /\ IF state # lastState
           THEN /\ Len(broadcasts) < MaxEvents
                /\ lastState' = state
                /\ broadcast("features", all)
           ELSE UNCHANGED <<lastState, broadcasts, received>>
        /\ op' = [name |-> "tick", read |-> TRUE, sent |-> state # lastState,
                  afterMissed |-> missed]
  /\ missed' = FALSE
  /\ UNCHANGED <<features, config, retries, escalated, pc, cur, ret, imported, patches,
                 archived, clients, broken>>

\* request bodies of PATCH /api/features/:id
PatchBodies ==
  {[passes |-> TRUE, id |-> 9], [status |-> "bogus"], [created_at |-> 1]}

\* app.patch('/api/features/:id'): f = features.update(id, req.body);
\* if (!f) 404; broadcast('feature-updated', f); res.json(f).  An update that
\* throws is answered 500 by the framework's error handler
Patch ==
  /\ pc = "serving"
  /\ \E id \in 1..(MaxServed + 1), body \in PatchBodies, now \in Now(features) :
       LET r == updateRow(features, id, body, now)
       IN /\ features' = r.store
          /\ IF r.threw \/ r.value = Null
             THEN UNCHANGED <<broadcasts, received>>
             ELSE /\ Len(broadcasts) < MaxEvents
                  /\ broadcast("feature-updated", r.value)
          /\ op' = [name |-> "PATCH", id |-> id, body |-> body,
                    code |-> IF r.threw THEN 500 ELSE IF r.value = Null THEN 404 ELSE 200]
  /\ UNCHANGED <<config, retries, escalated, pc, cur, ret, imported, patches,
                 archived, clients, lastState, broken, missed>>

\* fields an agent or the CLI writes with 'framework feature update'
WriterFields == {[status |-> "in-dev"]}

\* another process updates a feature while the server runs
StoreWrite ==
  /\ pc = "serving"
  /\ \E id \in DOMAIN features, fields \in WriterFields, now \in Now(features) :
       /\ features' = updateRow(features, id, fields, now).store
       /\ op' = [name |-> "update", id |-> id]
  /\ UNCHANGED <<config, retries, escalated, pc, cur, ret, imported, patches,
                 archived, dashboard>>

\* the stores the server is started on: up to MaxServed features created at
\* second 0 with every column at its default
DashStores(max) ==
  { [i \in 1..n |-> insertedRow(<<>>, 0)] : n \in 0..max }

DashInit ==
  /\ features \in DashStores(MaxServed)
  /\ config = NoRun
  /\ retries = <<>>
  /\ escalated = {}
  /\ pc = "serving"
  /\ cur = NoSession
  /\ op = NoOp
  /\ ret = NoRet
  /\ imported = NoImports
  /\ patches = 0
  /\ archived = NoArchives
  /\ clients = <<>>
  /\ lastState = <<>>
  /\ broken = {}
  /\ broadcasts = <<>>
  /\ received = [c \in Connections |-> <<>>]
  /\ missed = FALSE

DashNext ==
  \/ \E c \in Connections : Connect(c)
  \/ \E c \in Connections : SocketFails(c)
  \/ \E c \in Connections : OnClose(c)
  \/ TickSkipped
  \/ Tick
  \/ Patch
  \/ StoreWrite

SpecDash == DashInit /\ [][DashNext]_vars

----------------------------------------------------------------------------
(* The ticker *)

\* the features events of a broadcast log, in order
featuresEvents(log) == SelectSeq(log, LAMBDA m : m.event = "features")

\* this step is a tick that read the store
TickRead == op'.name = "tick" /\ op'.read /\ features' = features

\* this step hands one features event with the stored list to broadcast()
BroadcastsFeatures ==
  broadcasts' = Append(broadcasts, message("features", listAll(features)))

\* the list read now differs from the one the previous features event carried
\* (there being no previous features event counts as a difference)
DiffersFromLastBroadcast ==
  LET prev == featuresEvents(broadcasts)
  IN prev = <<>> \/ prev[Len(prev)].data # stringify(listAll(features))

\* C21: a tick that reads the store broadcasts a features event if and only if
\* the snapshot it read differs from the one the previous features event
\* carried, the event carries the full list as stored at that tick, and no
\* two consecutive features events carry the same payload
C21_TickBroadcastsIffChanged ==
  /\ [][ TickRead =>
           /\ DiffersFromLastBroadcast => BroadcastsFeatures
           /\ ~DiffersFromLastBroadcast => broadcasts' = broadcasts ]_vars
  /\ [](\A k \in 1..(Len(featuresEvents(broadcasts)) - 1) :
          featuresEvents(broadcasts)[k].data # featuresEvents(broadcasts)[k + 1].data)

\* a tick has just broadcast the second features event of the run
C21_Witness ==
  /\ op.name = "tick" /\ op.read /\ op.sent
  /\ Len(featuresEvents(broadcasts)) = 2
  /\ features # <<>>

\* this step is a tick whose read of the store failed
TickFailed == op'.name = "tick" /\ ~op'.read

\* C22: a tick whose read fails changes neither lastState nor the client set
\* and sends nothing; the first tick that reads the store after skipped ticks
\* broadcasts the current list when it differs from the last list broadcast
C22_SkippedTickLosesNothing ==
  [][ /\ TickFailed => UNCHANGED <<lastState, clients, broadcasts, received, features>>
      /\ (TickRead /\ missed /\ DiffersFromLastBroadcast) => BroadcastsFeatures ]_vars

\* the store changed after the first features event, a tick was skipped, and
\* the next tick read the store and broadcast the changed list
C22_Witness ==
  /\ op.name = "tick" /\ op.read /\ op.afterMissed /\ op.sent
  /\ Len(featuresEvents(broadcasts)) = 2

----------------------------------------------------------------------------
(* SSE fan-out *)

\* this step hands an event to broadcast()
Broadcasts == Len(broadcasts') = Len(broadcasts) + 1

\* the clients of the array whose write fails in a broadcast made now
FailedWrites == connected(clients) \cap broken

\* the events rcv occur in the broadcast log, in the same order, at or after
\* position from
RECURSIVE InOrder(_, _, _)
InOrder(rcv, log, from) ==
  \/ rcv = <<>>
  \/ \E k \in from..Len(log) :
       /\ log[k] = Head(rcv)
       /\ InOrder(Tail(rcv), log, k + 1)

\* C23: a broadcast in which the write to a client fails removes that client
\* from the clients array and still delivers the event to every other client
\* of the array, and each client receives events in the order of broadcast
C23_FailedWriteRemovesClient ==
  /\ [][ Broadcasts =>
           /\ \A c \in FailedWrites : c \notin connected(clients')
           /\ \A c \in connected(clients) \ FailedWrites :
                received'[c] = Append(received[c], broadcasts'[Len(broadcasts')]) ]_vars
  /\ [](\A c \in Connections : InOrder(received[c], broadcasts, 1))

----------------------------------------------------------------------------
(* PATCH /api/features/:id *)

\* this step is a PATCH request on feature id with this body
Patched(id, body) == op'.name = "PATCH" /\ op'.id = id /\ op'.body = body

\* the store after the step is the store before it with the allow-listed keys
\* of body written to feature id (updated_at aside) and nothing else changed
Applied(id, body) ==
  /\ DOMAIN features' = DOMAIN features
  /\ \A i \in DOMAIN features \ {id} : features'[i] = features[i]
  /\ \A k \in DOMAIN features[id] \ {"updated_at"} :
       features'[id][k] = IF k \in DOMAIN body \cap allowed THEN body[k]
                          ELSE features[id][k]

\* exactly one event is broadcast in this step: feature-updated, carrying the
\* record of id as stored after the step, written to every client of the
\* array whose socket works
OneFeatureUpdated(id) ==
  /\ broadcasts' = Append(broadcasts, message("feature-updated", getFeature(features', id)))
  /\ \A c \in connected(clients) \ broken :
       received'[c] = Append(received[c], message("feature-updated", getFeature(features', id)))
  /\ \A c \in Connections \ (connected(clients) \ broken) : received'[c] = received[c]

NothingSent == broadcasts' = broadcasts /\ received' = received

\* C24 as claimed: PATCH on an unknown id answers 404, changes nothing and
\* broadcasts nothing; on an existing id it applies the allow-listed fields of
\* any body and broadcasts exactly one feature-updated event
C24_PatchAppliesAndBroadcasts ==
  [][ \A id \in 1..(MaxServed + 1), body \in PatchBodies :
        Patched(id, body) =>
          IF id \notin DOMAIN features
          THEN op'.code = 404 /\ features' = features /\ NothingSent
          ELSE op'.code = 200 /\ Applied(id, body) /\ OneFeatureUpdated(id) ]_vars

\* the body asks for a value the table refuses
Refused(id, body) ==
  \/ "status" \in DOMAIN body /\ body.status \notin Statuses
  \/ /\ {"openspec_change_id", "openspec_task_group"} \cap DOMAIN body # {}
     /\ \E i \in DOMAIN features \ {id} :
          LET c == IF "openspec_change_id" \in DOMAIN body THEN body.openspec_change_id
                   ELSE features[id].openspec_change_id
              g == IF "openspec_task_group" \in DOMAIN body THEN body.openspec_task_group
                   ELSE features[id].openspec_task_group
          IN c # "" /\ features[i].openspec_change_id = c
                    /\ features[i].openspec_task_group = g

\* C24 as amended: as claimed, except that a body the table refuses is
\* answered with an error, changes nothing and broadcasts nothing
C24_PatchAppliesUnlessRefused ==
  [][ \A id \in 1..(MaxServed + 1), body \in PatchBodies :
        Patched(id, body) =>
          IF id \notin DOMAIN features
          THEN op'.code = 404 /\ features' = features /\ NothingSent
          ELSE IF Refused(id, body)
          THEN op'.code = 500 /\ features' = features /\ NothingSent
          ELSE op'.code = 200 /\ Applied(id, body) /\ OneFeatureUpdated(id) ]_vars

\* two clients are connected and a PATCH of FEAT-001 with passes = true and a
\* key outside the allow-list was answered 200: both received feature-updated
C24_Witness ==
  /\ op.name = "PATCH" /\ op.code = 200 /\ op.id = 1
  /\ "passes" \in DOMAIN op.body
  /\ features[1].passes
  /\ connected(clients) = Connections /\ broken = {}
  /\ \A c \in Connections :
       /\ received[c] # <<>>
       /\ received[c][Len(received[c])] = message("feature-updated", getFeature(features, 1))

----------------------------------------------------------------------------
(* The feature store under the library's writers: features.update and
   features.create on a table with its constraints and trigger *)

\* the pairs (openspec_change_id, openspec_task_group) feature i is created with
StoreKeys(i) == {[c |-> "", g |-> 0], [c |-> "X", g |-> i]}

\* the tables a writer starts on: up to max features inserted at second 0,
\* hand-made ones and task groups of change X
StoreStores(max) ==
  UNION { { [i \in 1..n |-> insertedRow([openspec_change_id |-> key[i].c,
                                         openspec_task_group |-> key[i].g], 0)] :
              key \in { k \in [1..n -> UNION {StoreKeys(i) : i \in 1..n}] :
                          \A i \in 1..n : k[i] \in StoreKeys(i) } } : n \in 0..max }

StoreInit ==
  /\ features \in StoreStores(MaxFeatures)
  /\ config = NoRun
  /\ retries = <<>>
  /\ escalated = {}
  /\ pc = "store"
  /\ cur = NoSession
  /\ op = NoOp
  /\ ret = NoRet
  /\ imported = NoImports
  /\ patches = 0
  /\ archived = NoArchives
  /\ ServerDown

\* the fields objects handed to features.update
UpdateFields ==
  {[id |-> 2, created_at |-> 1],
   [passes |-> TRUE, id |-> 2, created_at |-> 1],
   [openspec_change_id |-> "X", openspec_task_group |-> 1]}

\* features.update(projectRoot, featureId, fields)
Update ==
  /\ pc = "store"
  /\ \E id \in 1..(MaxFeatures + 1), fields \in UpdateFields, now \in Now(features) :
       LET r == updateRow(features, id, fields, now)
       IN /\ features' = r.store
          /\ op' = [name |-> "update", id |-> id, fields |-> fields, threw |-> r.threw]
  /\ UNCHANGED <<config, retries, escalated, pc, cur, ret, imported, patches, archived,
                 dashboard>>

\* the feature objects handed to features.create, the id aside
CreateFields ==
  {<<>>, [openspec_change_id |-> "X", openspec_task_group |-> 1]}

\* features.create(projectRoot, feature) with feature.id = features.nextId()
Create ==
  /\ pc = "store"
  /\ Cardinality(DOMAIN features) < MaxFeatures
  /\ \E f \in CreateFields, now \in Now(features) :
       LET id == nextId(features)
           r == insertRow(features, id, f, now)
       IN /\ features' = r.store
          /\ op' = [name |-> "create", id |-> id, fields |-> f, threw |-> r.threw]
  /\ UNCHANGED <<config, retries, escalated, pc, cur, ret, imported, patches, archived,
                 dashboard>>

\* one item of a feature-requirements.json file
fileItem(id, c, g) ==
  [id |-> id, status |-> "pending", passes |-> FALSE, depends_on |-> <<>>,
   assigned_to |-> "dev-agent", openspec_change_id |-> c, openspec_task_group |-> g]

\* the files imported: task group 1 of change X under the id FEAT-002, two
\* features holding each other's task group, and two hand-made features
ImportFiles ==
  {<<fileItem(2, "X", 1)>>,
   <<fileItem(1, "X", 2), fileItem(2, "X", 1)>>,
   <<fileItem(1, "", 0), fileItem(2, "", 0)>>}

\* upsert.run for one item: the parameters that are columns of this table
upsertParams(item) ==
  [k \in DOMAIN importedRow(item) \ {"assigned_to"} |-> importedRow(item)[k]]

\* INSERT ... ON CONFLICT(id) DO UPDATE SET ...: a new row is stamped by the
\* column defaults, a rewritten one by the trigger
upsertRun(F, item, now) ==
  LET vals == upsertParams(item)
      stamps == IF item.id \in DOMAIN F
                THEN [created_at |-> F[item.id].created_at, updated_at |-> now]
                ELSE [created_at |-> now, updated_at |-> now]
      G == [i \in DOMAIN F \cup {item.id} |-> IF i = item.id THEN vals @@ stamps ELSE F[i]]
  IN [store |-> G, threw |-> constraintFails(G)]

\* db.transaction(items => { for (const f of items) upsert.run(...) }): the
\* first statement that throws rolls the whole import back to F0
RECURSIVE insertMany(_, _, _, _, _)
insertMany(F0, F, items, k, now) ==
  IF k > Len(items) THEN [store |-> F, threw |-> FALSE]
  ELSE LET r == upsertRun(F, items[k], now)
       IN IF r.threw THEN [store |-> F0, threw |-> TRUE]
          ELSE insertMany(F0, r.store, items, k + 1, now)

\* db.importFeatures(projectRoot, inputPath)
Import ==
  /\ pc = "store"
  /\ \E items \in ImportFiles, now \in Now(features) :
       LET r == insertMany(features, features, items, 1, now)
       IN /\ features' = r.store
          /\ op' = [name |-> "import", id |-> 0, fields |-> items, threw |-> r.threw]
  /\ UNCHANGED <<config, retries, escalated, pc, cur, ret, imported, patches, archived,
                 dashboard>>

StoreNext ==
  \/ Update
  \/ Create
  \/ Import

SpecStore == StoreInit /\ [][StoreNext]_vars

\* C25: features.update changes neither the id nor created_at of a feature,
\* leaves every other feature as it was, changes no column of the feature
\* that a key outside the allow-list names, and changes nothing at all,
\* updated_at included, when fields holds no allow-listed key
C25_UpdateFrame ==
  [][ op'.name = "update" =>
        /\ DOMAIN features' = DOMAIN features
        /\ \A i \in DOMAIN features :
             /\ features'[i].created_at = features[i].created_at
             /\ i # op'.id => features'[i] = features[i]
        /\ (DOMAIN op'.fields \cap {"category", "status", "depends_on", "assigned_to",
                                    "passes", "openspec_change_id",
                                    "openspec_task_group"} = {}) => features' = features
      ]_vars

\* FEAT-001 was updated with passes = true together with an id and a
\* created_at: it passes, keeps its id and creation time, and is stamped at
\* second 1, while FEAT-002 is as it was created
C25_Witness ==
  /\ op.name = "update" /\ op.id = 1 /\ ~op.threw
  /\ op.fields = [passes |-> TRUE, id |-> 2, created_at |-> 1]
  /\ DOMAIN features = {1, 2}
  /\ features[1].passes /\ features[1].created_at = 0 /\ features[1].updated_at = 1
  /\ features[2] = insertedRow(<<>>, 0)

\* no two features of F share a pair with a non-empty change id
UniqueKeys(F) ==
  \A i, j \in DOMAIN F :
    (i # j /\ F[i].openspec_change_id # "") =>
      <<F[i].openspec_change_id, F[i].openspec_task_group>> #
        <<F[j].openspec_change_id, F[j].openspec_task_group>>

\* the table the writer of this step asked for, constraints aside
Requested ==
  IF op'.name = "update" THEN update(features, op'.id, op'.fields)
  ELSE IF op'.name = "create" THEN create(features, op'.id, op'.fields)
  ELSE importFeatures(features, op'.fields).F

\* C26: no reachable table holds two features with the same pair and a
\* non-empty change id; a create, update or feature import that asks for such
\* a table throws and leaves the table as it was; a feature with the pair
\* ('', 0) is created whatever pairs the other features have
C26_OpenspecKeyUnique ==
  /\ [] UniqueKeys(features)
  /\ [][ op'.name \in {"update", "create", "import"} =>
           /\ ~UniqueKeys(Requested) => (op'.threw /\ features' = features)
           /\ (op'.name = "create" /\ op'.fields = <<>>) =>
                (~op'.threw /\ op'.id \in DOMAIN features' \ DOMAIN features) ]_vars

\* FEAT-001 is task group 1 of change X and FEAT-002 has the pair ('', 0);
\* an update of FEAT-002 to (X, 1) threw
C26_Witness ==
  /\ op.name = "update" /\ op.id = 2 /\ op.threw
  /\ op.fields = [openspec_change_id |-> "X", openspec_task_group |-> 1]
  /\ DOMAIN features = {1, 2}
  /\ features[1].openspec_change_id = "X" /\ features[1].openspec_task_group = 1
  /\ features[2].openspec_change_id = "" /\ features[2].openspec_task_group = 0

----------------------------------------------------------------------------
(* Re-import of a change one of whose features has been worked on: the rows
   carry the category and assigned_to columns as well, and agents and
   dashboard users have changed the status, passes, assignment, category and
   depends_on of a feature since the first import *)

\* what has been made of the depends_on of the feature of task group i: left
\* as the import wired it, emptied, or given a dependency on another feature
WorkedDeps(i) ==
  (IF i = 1 THEN {<<>>} ELSE {<<i - 1>>, <<>>}) \cup {<<MaxGroups + 1>>}

\* the rows task group i of a change may have by now
WorkedRows(c, i) ==
  { [status |-> w.status, passes |-> w.passes, depends_on |-> d, category |-> w.category,
     assigned_to |-> w.assigned_to, openspec_change_id |-> c, openspec_task_group |-> i] :
      w \in {[status |-> "pending", passes |-> FALSE, category |-> c,
               assigned_to |-> "dev-agent"],
              [status |-> "complete", passes |-> TRUE, category |-> "ui",
               assigned_to |-> "ux-agent"]},
      d \in WorkedDeps(i) }

\* the row of task group i as the first import left it
importedAs(c, i) ==
  [status |-> "pending", passes |-> FALSE,
   depends_on |-> IF i = 1 THEN <<>> ELSE <<i - 1>>, category |-> c,
   assigned_to |-> "dev-agent", openspec_change_id |-> c, openspec_task_group |-> i]

\* the stores a re-import of change X finds: FEAT-00i is task group i of
\* 1..k, for k up to max, and one of the features has been worked on
WorkedStores(max) ==
  UNION { { [i \in 1..k |-> IF i = j THEN row ELSE importedAs("X", i)] :
              j \in 1..k, row \in UNION {WorkedRows("X", i) : i \in 1..k} }
          : k \in 1..max }

ReimportInit ==
  /\ features \in { F \in WorkedStores(MaxGroups) :
                      \A i \in DOMAIN F : F[i] \in WorkedRows("X", i) }
  /\ escalated = {}
  /\ config = NoRun
  /\ retries = <<>>
  /\ pc = "import"
  /\ cur = NoSession
  /\ op = NoOp
  /\ ret = NoRet
  /\ imported = [c \in Changes |-> IF c = "X" THEN Cardinality(DOMAIN features) ELSE 0]
  /\ patches = 0
  /\ archived = NoArchives
  /\ ServerDown

SpecReimport == ReimportInit /\ [][ImportNext]_vars

\* the features importChange(c) with n task groups finds in the store
Found(c, n) == { i \in ofChange(features, c) : features[i].openspec_task_group \in 1..n }

\* old is kept, or old with id appended
KeptOrGained(old, new, ids) ==
  \/ new = old
  \/ \E id \in ids : new = Append(old, id) /\ ~includes(old, id)

----------------------------------------------------------------------------
(* Import of a change whose tasks document has no task group *)

\* C28: an import of change C whose tasks parse to no task group, into a
\* store that holds no feature of C, creates exactly one feature and changes
\* no other: its description is C, its task group 1, its status pending, its
\* passes false and its depends_on empty
C28_ZeroGroupsOneFeature ==
  [][ ( /\ op'.name = "importChange" /\ ret'.val.ok
        /\ op'.parsed = 0
        /\ ofChange(features, op'.change) = {} ) =>
        /\ \A i \in DOMAIN features : i \in DOMAIN features' /\ features'[i] = features[i]
        /\ \E id \in DOMAIN features' \ DOMAIN features :
             /\ DOMAIN features' = DOMAIN features \cup {id}
             /\ ret'.val.created = <<id>>
             /\ features'[id].description = op'.change
             /\ features'[id].openspec_change_id = op'.change
             /\ features'[id].openspec_task_group = 1
             /\ features'[id].status = "pending"
             /\ features'[id].passes = FALSE
             /\ features'[id].depends_on = <<>> ]_vars

\* the store held one hand-made feature; change X, whose tasks document has
\* no task group, was imported and FEAT-002 was created, described as X
C28_Witness ==
  /\ op.name = "importChange" /\ op.change = "X" /\ op.parsed = 0
  /\ ret.val.ok /\ ret.val.created = <<2>> /\ ret.val.total = 1
  /\ DOMAIN features = {1, 2}
  /\ features[1].openspec_change_id = ""
  /\ features[2].description = "X"
  /\ features[2].openspec_task_group = 1

----------------------------------------------------------------------------
(* getNextAction as a whole *)

\* the three conditions on a feature: not complete, not escalated, and every
\* dependency complete
Eligible(F, esc, id) ==
  /\ F[id].status # "complete"
  /\ id \notin esc
  /\ depsAreMetByStatus(F, id)

\* the action the claimed mapping gives a feature
MappedAction(f) ==
  IF f.passes THEN "pr"
  ELSE CASE f.status \in {"pending", "needs-revision"} -> "dev"
         [] f.status = "ready-for-review" -> "review"
         [] f.status \in {"approved", "qa-testing"} -> "qa"
         [] f.status = "pr-open" -> "merge"
         [] f.status = "in-dev" -> "dev"
         [] OTHER -> "none"

\* C29: getNextAction returns the first feature in resolveOrder order that is
\* not complete, not escalated and has every dependency complete, with the
\* action the mapping gives it, and null exactly when there is no such feature
C29_FirstEligibleMapped ==
  ret.fn = "getNextAction" =>
    LET order == resolveOrder(features).sorted
        elig == { k \in 1..Len(order) : Eligible(features, escalated, order[k]) }
    IN IF elig = {} THEN ret.val = Null
       ELSE LET k == CHOOSE x \in elig : \A y \in elig : x <= y
            IN ret.val = Act(MappedAction(features[order[k]]), order[k])

----------------------------------------------------------------------------
(* Autoplay: the escalation set within one run *)

\* the controller starts an agent session, createPR or mergePR in this step
Starts ==
  /\ pc = "loop"
  /\ op' # op
  /\ op'.name \in {"spawn", "createPR", "mergePR"}

\* C30: within a run the escalation set only grows, and the controller starts
\* no agent session, createPR or mergePR for a feature that is in it
C30_EscalatedStaysSkipped ==
  [][ /\ escalated \subseteq escalated'
      /\ Starts => op'.id \notin escalated ]_vars

\* a feature was escalated, the run went on and started a session for another
C30_Witness ==
  /\ escalated # {}
  /\ pc = "session"
  /\ op.name = "spawn"
  /\ op.id \notin escalated

----------------------------------------------------------------------------
(* Autoplay with agents that reject every time: each dev session hands the
   feature over for review, each review or QA session sends it back *)

\* what the agent of an action writes on its feature
rejectWrite(action, f) ==
  IF action = "dev" THEN [status |-> "ready-for-review", passes |-> f.passes]
  ELSE [status |-> "needs-revision", passes |-> f.passes]

\* runAgentSession returns after the agent's write; reload and stall check
RejectedSessionEnd ==
  /\ pc = "session"
  /\ LET F2 == update(features, cur.id, rejectWrite(cur.action, features[cur.id]))
         a == afterSession(F2, retries, escalated, cur.id, cur.statusBefore,
                           config.maxRetries)
     IN /\ features' = F2
        /\ retries' = a.retries
        /\ escalated' = a.escalated
        /\ op' = [name |-> "session", id |-> cur.id]
  /\ pc' = "loop"
  /\ cur' = NoSession
  /\ UNCHANGED <<config, ret, imported, patches, archived, dashboard>>

RejectedNext ==
  \/ IterRaise
  \/ IterExit
  \/ IterPR
  \/ IterMerge
  \/ IterEscalate
  \/ IterSpawn
  \/ RejectedSessionEnd

\* the backlogs such a run starts on: features that are pending or have a PR
\* open, passed or not; dependencies as in AutoDeps
RejectedStores(max) ==
  UNION { { F \in [1..n -> [status : {"pending", "pr-open"}, passes : BOOLEAN,
                            depends_on : UNION {AutoDeps(i, n) : i \in 1..n},
                            openspec_change_id : {""}, openspec_task_group : {0}]] :
              \A i \in 1..n : F[i].depends_on \in AutoDeps(i, n) } :
          n \in 1..max }

RejectedInit ==
  /\ features \in RejectedStores(MaxFeatures)
  /\ config \in [maxRetries : 0..MaxRetriesBound, autoMerge : BOOLEAN, safeMode : BOOLEAN,
                   openspecAutoArchive : {FALSE}]
  /\ retries = <<>>
  /\ escalated = {}
  /\ pc = "loop"
  /\ cur = NoSession
  /\ op = NoOp
  /\ ret = NoRet
  /\ imported = NoImports
  /\ patches = 0
  /\ archived = NoArchives
  /\ ServerDown

\* every agent subprocess exits and the loop keeps iterating while the run
\* lasts (weak fairness of RejectedNext, with ENABLED written out as Running)
RejectedFair ==
  /\ WF_vars(RejectedSessionEnd)
  /\ ([]<>(~Running) \/ []<><<RejectedNext>>_vars)

SpecRejected == RejectedInit /\ [][RejectedNext]_vars /\ RejectedFair

\* the loop is about to pick id up in needs-revision
PicksUpRejected(id) ==
  /\ pc = "loop"
  /\ nextAction = Act("dev", id)
  /\ features[id].status = "needs-revision"

----------------------------------------------------------------------------
(* Autoplay: agent sessions that fail *)

\* result.status of spawnSync: 0, or not 0 (a failed agent; null when claude
\* could not be spawned, 1 when there is no prompt)
ExitCodes == {0, 1}

\* SessionEnd with the { code, signal } that runAgentSession returns kept in
\* op: the controller drops it, reloads the feature and does the stall
\* accounting
SessionExit ==
  /\ pc = "session"
  /\ \E w \in AgentWrites, code \in ExitCodes :
       LET F2 == update(features, cur.id, w)
           a == afterSession(F2, retries, escalated, cur.id, cur.statusBefore,
                             config.maxRetries)
       IN /\ features' = F2
          /\ retries' = a.retries
          /\ escalated' = a.escalated
          /\ op' = [name |-> "session", id |-> cur.id, code |-> code]
  /\ pc' = "loop"
  /\ cur' = NoSession
  /\ UNCHANGED <<config, ret, imported, patches, archived, dashboard>>

ExitNext ==
  \/ IterRaise
  \/ IterExit
  \/ IterPR
  \/ IterMerge
  \/ IterEscalate
  \/ IterSpawn
  \/ SessionExit

\* a run on a pending backlog with merging enabled
ExitInit ==
  /\ features \in AutoStores(MaxFeatures)
  /\ config \in [maxRetries : 0..MaxRetriesBound, autoMerge : {TRUE}, safeMode : {FALSE},
                   openspecAutoArchive : {FALSE}]
  /\ retries = <<>>
  /\ escalated = {}
  /\ pc = "loop"
  /\ cur = NoSession
  /\ op = NoOp
  /\ ret = NoRet
  /\ imported = NoImports
  /\ patches = 0
  /\ archived = NoArchives
  /\ ServerDown

SpecExit == ExitInit /\ [][ExitNext]_vars

\* this step is the end of a session whose agent exited with a non-zero code
FailedSession ==
  /\ pc = "session"
  /\ op'.name = "session"
  /\ op'.code # 0

\* C32: every session that ends with a non-zero exit code adds one to the
\* feature's retry counter, whether or not the status changed, and the run
\* goes on with the next iteration
C32_FailedSessionCounted ==
  [][ FailedSession =>
        /\ retryOf(retries', cur.id) = retryOf(retries, cur.id) + 1
        /\ pc' = "loop" ]_vars

----------------------------------------------------------------------------
(* createPR called on its own, in every environment *)

\* the stores createPR is called on: features that QA was testing, that were
\* sent back or that have a PR open already, passed or not
PRStores(max) ==
  UNION { { F \in [1..n -> [status : {"qa-testing", "needs-revision", "pr-open"},
                            passes : BOOLEAN,
                            depends_on : UNION {AutoDeps(i, n) : i \in 1..n},
                            description : {"a feature"}, assigned_to : {"dev-agent"},
                            openspec_change_id : {""}, openspec_task_group : {0}]] :
              \A i \in 1..n : F[i].depends_on \in AutoDeps(i, n) } :
          n \in 1..max }

PRInit ==
  /\ features \in PRStores(MaxFeatures)
  /\ escalated = {}
  /\ config = NoRun
  /\ retries = <<>>
  /\ pc = "vcs"
  /\ cur = NoSession
  /\ op = NoOp
  /\ ret = NoRet
  /\ imported = NoImports
  /\ patches = 0
  /\ archived = NoArchives
  /\ ServerDown

\* a call of createPR(feature, config) for a feature read from the store
CallCreatePR ==
  /\ pc = "vcs"
  /\ \E id \in DOMAIN features, env \in PREnvs :
       /\ features' = createPR(features, id, env)
       /\ ret' = [fn |-> "createPR", id |-> id, env |-> env, val |-> createPRValue(env)]
  /\ pc' = "returned"
  /\ UNCHANGED <<config, retries, escalated, cur, op, imported, patches, archived, dashboard>>

PRNext == CallCreatePR

SpecPR == PRInit /\ [][PRNext]_vars

\* C33: after createPR(f) the status of f is pr-open and the call returned
\* true, whatever gh and the origin remote did; every other field of f, every
\* other feature and the set of features are as before
C33_CreatePRFrame ==
  [][ ret'.fn = "createPR" =>
        /\ features'[ret'.id].status = "pr-open"
        /\ ret'.val = TRUE
        /\ DOMAIN features' = DOMAIN features
        /\ \A k \in DOMAIN features[ret'.id] \ {"status"} :
             features'[ret'.id][k] = features[ret'.id][k]
        /\ \A j \in DOMAIN features \ {ret'.id} : features'[j] = features[j] ]_vars

\* gh is present, 'gh pr create' failed and there is no origin remote: the
\* passed feature has its PR marked open all the same
C33_Witness ==
  /\ ret.fn = "createPR"
  /\ ret.env = [origin |-> FALSE, gh |-> "fails"]
  /\ ret.val
  /\ features[ret.id].passes
  /\ features[ret.id].status = "pr-open"

----------------------------------------------------------------------------
(* Autoplay run after run: the command is started again on the store the
   run before it left *)

\* a run started with the escalation set of the run before
StartRunKeepsEscalated ==
  /\ pc \in {"done", "crashed"}
  /\ retries' = <<>>
  /\ escalated' = escalated
  /\ pc' = "loop"
  /\ cur' = NoSession
  /\ op' = [name |-> "run", was |-> escalated]
  /\ UNCHANGED <<features, config, ret, imported, patches, archived, dashboard>>

\* 'framework autoplay' again, after a run that ended or crashed:
\* var retries = {}; var escalated = new Set(); the store is the one on disk
StartRun ==
  /\ pc \in {"done", "crashed"}
  /\ retries' = <<>>
  /\ escalated' = {}
  /\ pc' = "loop"
  /\ cur' = NoSession
  /\ op' = [name |-> "run", was |-> escalated]
  /\ UNCHANGED <<features, config, ret, imported, patches, archived, dashboard>>

RunsNext ==
  \/ IterRaise
  \/ IterExit
  \/ IterPR
  \/ IterMerge
  \/ IterEscalate
  \/ IterSpawn
  \/ SessionEnd
  \/ StartRun

\* the first run: a pending backlog whose first feature depends on nothing or
\* on itself and each later one on nothing or on the feature before it, with
\* the default configuration as far as merging goes (safe_mode on, auto_merge
\* off)
RunsStores(max) ==
  UNION { { F \in [1..n -> [status : {"pending"}, passes : {FALSE},
                            depends_on : UNION {CoopDeps(i, n) : i \in 1..n},
                            openspec_change_id : {""}, openspec_task_group : {0}]] :
              \A i \in 1..n : F[i].depends_on \in CoopDeps(i, n) } :
          n \in 1..max }

RunsInit ==
  /\ features \in RunsStores(MaxFeatures)
  /\ config \in [maxRetries : 0..MaxRetriesBound, autoMerge : {FALSE}, safeMode : {TRUE},
                   openspecAutoArchive : {FALSE}]
  /\ retries = <<>>
  /\ escalated = {}
  /\ pc = "loop"
  /\ cur = NoSession
  /\ op = NoOp
  /\ ret = NoRet
  /\ imported = NoImports
  /\ patches = 0
  /\ archived = NoArchives
  /\ ServerDown

SpecRuns == RunsInit /\ [][RunsNext]_vars

\* C34: a run starts with no retry counter and an empty escalation set, on
\* the store as the run before left it; a feature that run had escalated and
\* that is not complete, with every dependency complete, is not skipped by
\* the scheduler of the new run
C34_EscalationDiesWithRun ==
  [][ op'.name = "run" =>
        /\ retries' = <<>>
        /\ escalated' = {}
        /\ features' = features
        /\ \A id \in escalated :
             (features[id].status # "complete" /\ depsAreMetByStatus(features, id)) =>
               ~skipped(features', escalated', id) ]_vars

\* a second run has started after a run that escalated a feature, and its
\* first action is for that feature
C34_Witness ==
  /\ op.name = "run"
  /\ op.was # {}
  /\ nextAction.kind = "action"
  /\ nextAction.id \in op.was

----------------------------------------------------------------------------
(* The life of a feature: every operation that writes the features table,
   each on the stores it is run on: the autoplay loop with its agent sessions
   ('feature update' from the CLI), createPR and mergePR; the OpenSpec import
   (importAll is importChange for each change directory); exportFeatures and
   importFeatures; and PATCH /api/features/:id, which is features.update on
   the database *)

LifeInit ==
  \/ ExitInit
  \/ ImportInit
  \/ PortInit
  \/ DashInit

LifeNext ==
  \/ AutoNext
  \/ ImportNext
  \/ PortNext
  \/ Patch

SpecLife == LifeInit /\ [][LifeNext]_vars

\* C35: no step of the controller, the importer, the server or the CLI takes
\* a feature id out of the store: no step is a features.remove, and a
\* complete feature is still there after every step
C35_NoFeatureDeleted ==
  [][ /\ DOMAIN features \subseteq DOMAIN features'
      /\ \A id \in DOMAIN features :
           /\ features' # remove(features, id)
           /\ features[id].status = "complete" => id \in DOMAIN features' ]_vars

\* the controller has merged a feature and set it complete; it is in the store
C35_Witness ==
  /\ op.name = "mergePR"
  /\ op.result = "merged"
  /\ op.id \in DOMAIN features
  /\ features[op.id].status = "complete"

----------------------------------------------------------------------------
(* Autoplay: what follows createPR *)

\* C36: after createPR for a feature the scheduler's action for that feature
\* is merge, and createPR is not called for it a second time
C36_CreatePROncePerFeature ==
  /\ [](op.name = "createPR" => actionFor(features[op.id]) = "merge")
  /\ [][ (op.name = "createPR" /\ op'.name = "createPR" /\ op' # op) =>
           op'.id # op.id ]_vars

----------------------------------------------------------------------------
(* Autoplay: what is merged *)

\* C37: the merge action is taken only for a feature with passes = true, so
\* every feature the controller merges and sets complete has passed QA
C37_MergedHasPassed ==
  [][ op'.name = "mergePR" =>
        /\ features[op'.id].passes
        /\ features'[op'.id].status = "complete" => features'[op'.id].passes ]_vars

\* the converse, which the scheduler's mapping gives: a merge step is for a
\* feature with passes not true
MergeOnlyUnpassed ==
  [][ op'.name = "mergePR" => ~features[op'.id].passes ]_vars

----------------------------------------------------------------------------
(* Autoplay: exhausted retry budgets *)

\* C38: a feature whose retry counter exceeds max_retries is in the
\* escalation set, and the scheduler does not return it
C38_ExhaustedIsEscalated ==
  \A id \in DOMAIN retries :
    retries[id] > config.maxRetries =>
      /\ id \in escalated
      /\ (pc = "loop" /\ nextAction.kind = "action") => nextAction.id # id

\* a feature ran out of retries by stalling, and the run goes on without it
C38_Witness ==
  /\ \E id \in DOMAIN retries : retries[id] > config.maxRetries /\ id \in escalated
  /\ op.name = "session"
  /\ pc = "loop"
  /\ nextAction.kind = "action"

----------------------------------------------------------------------------
(* OpenSpec import: the dependency graph after the wiring *)

\* C39: an importChange run on a store whose depends_on graph has no cycle
\* leaves it without a cycle, and resolveOrder returns on the store it leaves
C39_ImportKeepsAcyclic ==
  [][ (op'.name = "importChange" /\ ret'.val.ok /\ ~HasCycle(features)) =>
        /\ ~HasCycle(features')
        /\ resolveOrder(features').thrown = {} ]_vars

----------------------------------------------------------------------------
(* The standalone orchestrator script, scripts/orchestrator.js, auto mode:
   the features are the entries of architecture/feature-requirements.json,
   read again at the head of every iteration; its resolveOrder and depsAreMet
   are the library's, line for line *)

\* statusOf(feature): passes === true reads as complete
statusOf(f) == IF f.passes THEN "complete" ELSE f.status

\* getNextAction of the script: the three skips
orchSkipped(F, esc, id) ==
  \/ statusOf(F[id]) = "complete"
  \/ id \in esc
  \/ ~depsAreMet(F, id)

\* getNextAction of the script: the status-to-action mapping
orchActionFor(f) ==
  IF statusOf(f) \in {"pending", "needs-revision"} THEN "dev"
  ELSE IF statusOf(f) = "ready-for-review" THEN "review"
  ELSE IF statusOf(f) = "approved" THEN "qa"
  ELSE "dev"

RECURSIVE orchFirstActionable(_, _, _, _)
orchFirstActionable(F, esc, order, i) ==
  IF i > Len(order) THEN Null
  ELSE IF orchSkipped(F, esc, order[i]) THEN orchFirstActionable(F, esc, order, i + 1)
  ELSE Act(orchActionFor(F[order[i]]), order[i])

orchGetNextAction(F, esc) ==
  LET r == resolveOrder(F)
  IN IF r.thrown # {} THEN Raise(CHOOSE id \in r.thrown : TRUE)
     ELSE orchFirstActionable(F, esc, r.sorted, 1)

\* retries[featureId] = (retries[featureId] || 0) + 1, where the counter is
\* only ever compared with maxRetries: a value above MaxRetriesBound + 1 is
\* kept as MaxRetriesBound + 2
orchBump(r, id) ==
  [i \in DOMAIN r \cup {id} |->
     IF i = id THEN IF retryOf(r, id) > MaxRetriesBound THEN MaxRetriesBound + 2
                    ELSE retryOf(r, id) + 1
     ELSE r[i]]

\* const allComplete = features.every(f => f.passes === true)
allComplete(F) == \A id \in DOMAIN F : F[id].passes

\* if (allComplete) break
OrchAllComplete ==
  /\ pc = "auto"
  /\ allComplete(features)
  /\ pc' = "done"
  /\ op' = [name |-> "all complete"]
  /\ UNCHANGED <<features, config, retries, escalated, cur, ret, imported, patches, archived, dashboard>>

\* getNextAction throws 'Circular dependency'; main().catch exits with 1
OrchRaise ==
  /\ pc = "auto"
  /\ ~allComplete(features)
  /\ orchGetNextAction(features, escalated).kind = "raise"
  /\ pc' = "crashed"
  /\ op' = [name |-> "raise"]
  /\ UNCHANGED <<features, config, retries, escalated, cur, ret, imported, patches, archived, dashboard>>

\* if (!next) break
OrchNoAction ==
  /\ pc = "auto"
  /\ ~allComplete(features)
  /\ orchGetNextAction(features, escalated).kind = "null"
  /\ pc' = "done"
  /\ op' = [name |-> "no action"]
  /\ UNCHANGED <<features, config, retries, escalated, cur, ret, imported, patches, archived, dashboard>>

\* dev on needs-revision over the limit: escalated.add(featureId); continue
OrchEscalate ==
  /\ pc = "auto"
  /\ ~allComplete(features)
  /\ LET next == orchGetNextAction(features, escalated)
     IN /\ next.kind = "action" /\ next.action = "dev"
        /\ features[next.id].status = "needs-revision"
        /\ retryOf(retries, next.id) + 1 > config.maxRetries
        /\ retries' = orchBump(retries, next.id)
        /\ escalated' = escalated \cup {next.id}
        /\ op' = [name |-> "escalate", id |-> next.id]
  /\ UNCHANGED <<features, config, pc, cur, ret, imported, patches, archived, dashboard>>

\* the retry check passed or did not apply: statusBefore, await runAgent(...)
OrchSpawn ==
  /\ pc = "auto"
  /\ ~allComplete(features)
  /\ LET next == orchGetNextAction(features, escalated)
         rejected == next.action = "dev" /\ features[next.id].status = "needs-revision"
     IN /\ next.kind = "action"
        /\ rejected => retryOf(retries, next.id) + 1 <= config.maxRetries
        /\ retries' = IF rejected THEN orchBump(retries, next.id) ELSE retries
        /\ cur' = [action |-> next.action, id |-> next.id,
                    statusBefore |-> statusOf(features[next.id])]
        /\ op' = [name |-> "spawn", id |-> next.id]
  /\ pc' = "agent"
  /\ UNCHANGED <<features, config, escalated, ret, imported, patches, archived, dashboard>>

\* runAgent rejects (claude could not be spawned, or the prompt file could
\* not be read): catch (err) { retries[featureId] += 1; continue; }
OrchAgentError ==
  /\ pc = "agent"
  /\ retries' = orchBump(retries, cur.id)
  /\ pc' = "auto"
  /\ cur' = NoSession
  /\ op' = [name |-> "agent error", id |-> cur.id]
  /\ UNCHANGED <<features, config, escalated, ret, imported, patches, archived, dashboard>>

\* what an agent writes on its entry of the file: nothing, or a status the
\* script knows with any passes value
OrchWrites ==
  {<<>>} \cup [status : {"pending", "needs-revision", "ready-for-review", "approved"},
               passes : BOOLEAN]

\* runAgent resolves (the process closed, whatever its exit code): reload the
\* file and compare statusOf with statusBefore
OrchAgentClose ==
  /\ pc = "agent"
  /\ \E w \in OrchWrites :
       LET F2 == update(features, cur.id, w)
           stalled == statusOf(F2[cur.id]) = cur.statusBefore
       IN /\ features' = F2
          /\ retries' = IF stalled THEN orchBump(retries, cur.id) ELSE retries
          /\ escalated' = IF stalled /\ retryOf(retries, cur.id) + 1 > config.maxRetries
                           THEN escalated \cup {cur.id} ELSE escalated
  /\ pc' = "auto"
  /\ cur' = NoSession
  /\ op' = [name |-> "close", id |-> cur.id]
  /\ UNCHANGED <<config, ret, imported, patches, archived, dashboard>>

OrchNext ==
  \/ OrchAllComplete
  \/ OrchRaise
  \/ OrchNoAction
  \/ OrchEscalate
  \/ OrchSpawn
  \/ OrchAgentError
  \/ OrchAgentClose

\* the feature files a run starts on: entries that are pending or were sent
\* back, none passed; dependencies as in CoopDeps
OrchStores(max) ==
  UNION { { F \in [1..n -> [status : {"pending", "needs-revision"}, passes : {FALSE},
                            depends_on : UNION {CoopDeps(i, n) : i \in 1..n},
                            openspec_change_id : {""}, openspec_task_group : {0}]] :
              \A i \in 1..n : F[i].depends_on \in CoopDeps(i, n) } :
          n \in 1..max }

OrchInit ==
  /\ features \in OrchStores(MaxFeatures)
  /\ config \in [maxRetries : 0..MaxRetriesBound, autoMerge : {FALSE}, safeMode : {TRUE},
                   openspecAutoArchive : {FALSE}]
  /\ retries = <<>>
  /\ escalated = {}
  /\ pc = "auto"
  /\ cur = NoSession
  /\ op = NoOp
  /\ ret = NoRet
  /\ imported = NoImports
  /\ patches = 0
  /\ archived = NoArchives
  /\ ServerDown

OrchRunning == pc \in {"auto", "agent"}

\* every runAgent promise settles, by 'error' or by 'close', and the loop
\* keeps iterating while the run lasts (weak fairness of OrchNext, with
\* ENABLED written out as OrchRunning)
OrchFair ==
  /\ WF_vars(OrchAgentError \/ OrchAgentClose)
  /\ ([]<>(~OrchRunning) \/ []<><<OrchNext>>_vars)

SpecOrch == OrchInit /\ [][OrchNext]_vars /\ OrchFair

\* C40: auto mode ends once agents can no longer be spawned: unless sessions
\* keep closing normally for ever, the loop is left; and a feature whose
\* failed sessions have used up the budget is escalated
C40_AutoModeTerminates ==
  /\ ([]<>(op.name = "close")) \/ <>(~OrchRunning)
  /\ [](pc = "auto" =>
          \A id \in DOMAIN retries : retries[id] > config.maxRetries => id \in escalated)

====
